---- MODULE Spec2Model ----
(***************************************************************************)
(* Model of the binding generator in build.py (generate_api and the        *)
(* functions it calls).  A string of the program is a sequence of tokens:  *)
(* "*const Dom" is <<"*const", " ", "Dom">>, the class name "Dom" is       *)
(* <<"Dom">> and the prefixed name "AzDom" is <<"Az", "Dom">>.  Generated  *)
(* text is kept as the sequence of declarations / statements it contains.  *)
(***************************************************************************)
EXTENDS Integers, Sequences, FiniteSets, TLC

\* ------------------------------------------------------------------------
\* Bounds of the model
\* ------------------------------------------------------------------------

\* largest number of classes in a schema
MaxClasses == 3

\* ------------------------------------------------------------------------
\* Program constants
\* ------------------------------------------------------------------------

prefix == <<"Az">>

basic_types ==
    { "bool", "f32", "f64", "fn", "i128", "i16",
      "i32", "i64", "i8", "isize", "slice", "u128", "u16",
      "u32", "u64", "u8", "()", "usize", "c_void" }

\* the iteration limit of the sweep loop of sort_structs_map
MaxIterations == 500

\* ------------------------------------------------------------------------
\* String helpers (Python str methods on token sequences)
\* ------------------------------------------------------------------------

NoStr == << >>

startswith(s, p) ==
    /\ Len(p) <= Len(s)
    /\ SubSeq(s, 1, Len(p)) = p

endswith(s, p) ==
    /\ Len(p) <= Len(s)
    /\ SubSeq(s, Len(s) - Len(p) + 1, Len(s)) = p

RECURSIVE replace(_, _)
\* s.replace(p, ""): every non-overlapping occurrence of p, left to right
replace(s, p) ==
    IF s = << >> THEN << >>
    ELSE IF startswith(s, p) THEN replace(SubSeq(s, Len(p) + 1, Len(s)), p)
    ELSE <<Head(s)>> \o replace(Tail(s), p)

RECURSIVE lstrip(_)
lstrip(s) ==
    IF s # << >> /\ Head(s) = " " THEN lstrip(Tail(s)) ELSE s

RECURSIVE rstrip(_)
rstrip(s) ==
    IF s # << >> /\ s[Len(s)] = " " THEN rstrip(SubSeq(s, 1, Len(s) - 1)) ELSE s

strip(s) == rstrip(lstrip(s))

RECURSIVE split(_, _)
\* s.split(sep) for a one-token separator
split(s, sep) ==
    IF \A i \in 1..Len(s) : s[i] # sep THEN <<s>>
    ELSE LET i == CHOOSE k \in 1..Len(s) :
                      s[k] = sep /\ \A j \in 1..(k - 1) : s[j] # sep
         IN  <<SubSeq(s, 1, i - 1)>> \o split(SubSeq(s, i + 1, Len(s)), sep)

\* ------------------------------------------------------------------------
\* Type analysis
\* ------------------------------------------------------------------------

get_stripped_arg(arg) ==
    strip(replace(replace(replace(replace(arg, <<"&">>), <<"&", "mut">>),
                          <<"*const">>), <<"*mut">>))

is_primitive_arg(arg) ==
    LET a == get_stripped_arg(arg)
    IN  Len(a) = 1 /\ a[1] \in basic_types

\* analyze_type(arg) = [starts, arg_type, ends]
\* analyze_type: arg_type after the recognized prefix is replaced away and
\* the result stripped
arg_type_stripped(arg) ==
    strip(IF startswith(arg, <<"&", "mut">>) THEN replace(arg, <<"&", "mut">>)
          ELSE IF startswith(arg, <<"&">>) THEN replace(arg, <<"&">>)
          ELSE IF startswith(arg, <<"*const">>) THEN replace(arg, <<"*const">>)
          ELSE IF startswith(arg, <<"*mut">>) THEN replace(arg, <<"*mut">>)
          ELSE arg)

analyze_type(arg) ==
    LET starts1 ==
            IF startswith(arg, <<"&", "mut">>) THEN <<"&", "mut", " ">>
            ELSE IF startswith(arg, <<"&">>) THEN <<"&">>
            ELSE IF startswith(arg, <<"*const">>) THEN <<"*const", " ">>
            ELSE IF startswith(arg, <<"*mut">>) THEN <<"*mut", " ">>
            ELSE << >>
        Array(starts, arg_type_array) ==
            <<starts \o <<"[">>, arg_type_array[1], <<";">> \o arg_type_array[2]>>
        Result(starts, arg_type) ==
            IF startswith(arg_type, <<"[">>) /\ endswith(arg_type, <<"]">>)
            THEN Array(starts, split(Tail(arg_type), ";"))
            ELSE <<starts, arg_type, << >> >>
    IN  Result(starts1, arg_type_stripped(arg))

\* ------------------------------------------------------------------------
\* The schema (api.json, last version): an ordered list of classes, grouped
\* by module.  A key that a class dictionary does not have is modelled by
\* the empty value of the field.
\* ------------------------------------------------------------------------

Field(n, t) == [name |-> n, type |-> t, extra_derive |-> NoStr]

Fn(n, s, a, r) ==
    [name |-> n, self |-> s, args |-> a, returns |-> r, use_patches |-> {}]

Arg(n, t) == [name |-> n, type |-> t]

CbArg(t, r) == [type |-> t, ref |-> r]

Cls(n, m, k) ==
    [ name |-> <<n>>, module |-> m, kind |-> k, external |-> TRUE,
      fields |-> << >>, cb_args |-> << >>, cb_ret |-> NoStr,
      derive |-> {}, custom_destructor |-> FALSE, clone |-> TRUE,
      is_boxed_object |-> FALSE, constructors |-> << >>, functions |-> << >>,
      use_patches |-> {} ]

AllDerives == {"Debug", "Clone", "Copy", "PartialEq", "PartialOrd"}

ClassPool ==
    { \* module m1: structs
      [Cls("A", "m1", "struct") EXCEPT
          !.fields = <<Field("x", <<"u32">>), Field("b", <<"B">>)>>,
          !.derive = AllDerives],
      [Cls("A", "m1", "struct") EXCEPT
          !.fields = <<Field("x", <<"u32">>), Field("y", <<"u8">>)>>],
      [Cls("A", "m1", "struct") EXCEPT
          !.fields = <<Field("cb", <<"Cb">>), Field("x", <<"u32">>)>>,
          !.derive = {"Clone", "Copy"}],
      [Cls("A", "m1", "struct") EXCEPT
          !.fields = <<Field("m", <<"Missing">>)>>],
      [Cls("A", "m1", "struct") EXCEPT
          !.fields = <<Field("x", <<"u32">>)>>,
          !.use_patches = {"rust"}],
      [Cls("A", "m1", "struct") EXCEPT
          !.fields = <<Field("ptr", <<"*mut", " ", "c_void">>)>>,
          !.is_boxed_object = TRUE],
      [Cls("A", "m1", "struct") EXCEPT
          !.fields = <<Field("ptr", <<"*mut", " ", "c_void">>)>>,
          !.is_boxed_object = TRUE,
          !.custom_destructor = TRUE],
      [Cls("B", "m1", "struct") EXCEPT
          !.fields = <<Field("y", <<"u32">>)>>,
          !.custom_destructor = TRUE],
      [Cls("B", "m1", "struct") EXCEPT
          !.fields = <<Field("p", <<"*const", " ", "A">>), Field("n", <<"usize">>)>>,
          !.clone = FALSE],
      [Cls("B", "m1", "struct") EXCEPT
          !.fields = <<Field("ptr", <<"*mut", " ", "c_void">>)>>,
          !.is_boxed_object = TRUE,
          !.custom_destructor = TRUE,
          !.derive = {"Copy"},
          !.clone = FALSE],
      [Cls("B", "m1", "enum") EXCEPT
          !.fields = <<Field("None", NoStr), Field("Some", <<"A">>)>>,
          !.derive = {"Debug", "Clone"}],
      [Cls("B", "m1", "enum") EXCEPT
          !.fields = <<Field("X", NoStr), Field("Y", NoStr)>>,
          !.derive = AllDerives],
      [Cls("B", "m1", "enum") EXCEPT
          !.fields = <<Field("None", NoStr), Field("Some", <<"u32">>)>>],
      [Cls("B", "m1", "enum") EXCEPT
          !.fields = <<Field("None", NoStr), Field("Some", <<"Cb">>)>>],
      [Cls("B", "m1", "enum") EXCEPT
          !.fields = <<Field("X", NoStr), Field("Y", NoStr)>>,
          !.custom_destructor = TRUE],
      \* module m1: callback typedefs
      [Cls("Cb", "m1", "typedef") EXCEPT
          !.external = FALSE,
          !.cb_args = <<CbArg(<<"A">>, "ref")>>],
      [Cls("Cb", "m1", "typedef") EXCEPT
          !.external = FALSE,
          !.cb_args = <<CbArg(<<"Missing">>, "value")>>],
      [Cls("Cb", "m1", "typedef") EXCEPT
          !.external = FALSE,
          !.cb_args = <<CbArg(<<"u32">>, "value")>>,
          !.cb_ret = <<"Missing">>],
      [Cls("Cb", "m1", "typedef") EXCEPT
          !.cb_args = <<CbArg(<<"u32">>, "value")>>,
          !.is_boxed_object = TRUE],
      \* module m1: the self-referential container and its element
      [Cls("Dom", "m1", "struct") EXCEPT
          !.fields = <<Field("children", <<"DomVec">>)>>],
      [Cls("DomVec", "m1", "struct") EXCEPT
          !.fields = <<Field("ptr", <<"*const", " ", "Dom">>),
                       Field("len", <<"usize">>)>>],
      \* module m1: the struct whose mirror never derives
      [Cls("U8VecRef", "m1", "struct") EXCEPT
          !.fields = <<Field("len", <<"usize">>), Field("cap", <<"usize">>)>>],
      \* module m1: a constant
      Cls("K", "m1", "const"),
      \* module m2: classes with functions
      [Cls("W", "m2", "struct") EXCEPT
          !.fields = <<Field("h", <<"u32">>)>>,
          !.functions = <<Fn("f", "ref",
                             <<Arg("a", <<"A">>), Arg("b", <<"B">>)>>, NoStr)>>],
      [Cls("W", "m2", "struct") EXCEPT
          !.fields = <<Field("h", <<"u32">>)>>,
          !.functions = <<Fn("g", "refmut",
                             <<Arg("p", <<"*const", " ", "A">>)>>, <<"u32">>)>>],
      [Cls("W", "m2", "struct") EXCEPT
          !.fields = <<Field("h", <<"u32">>)>>,
          !.functions = <<Fn("h", "value", <<Arg("m", <<"Missing">>)>>, NoStr)>>],
      [Cls("W", "m2", "struct") EXCEPT
          !.fields = <<Field("h", <<"u32">>)>>,
          !.functions = <<Fn("k", "ref", <<Arg("r", <<"&", "A">>)>>, NoStr)>>],
      [Cls("W", "m2", "struct") EXCEPT
          !.fields = <<Field("h", <<"u32">>)>>,
          !.functions = <<Fn("r", "ref", << >>, <<"Missing">>)>>],
      [Cls("W", "m2", "struct") EXCEPT
          !.fields = <<Field("h", <<"u32">>)>>,
          !.constructors = <<Fn("new", "", <<Arg("a", <<"A">>)>>, NoStr)>>,
          !.functions = <<Fn("s", "mut value", <<Arg("n", <<"u32">>)>>, <<"B">>)>>],
      [Cls("W", "m2", "struct") EXCEPT
          !.fields = <<Field("h", <<"u32">>)>>,
          !.constructors =
              <<[Fn("new", "", <<Arg("n", <<"u32">>)>>, NoStr)
                    EXCEPT !.use_patches = {"rust"}]>>,
          !.functions =
              <<[Fn("t", "ref", << >>, NoStr) EXCEPT !.use_patches = {"rust"}],
                Fn("s", "ref", << >>, <<"u32">>)>>],
      [Cls("W", "m2", "struct") EXCEPT
          !.fields = <<Field("h", <<"u32">>)>>,
          !.functions = <<Fn("v", "owned", << >>, NoStr)>>]
    }

ModuleRank(m) == IF m = "m1" THEN 1 ELSE 2

\* the schemas the model starts from: class names unique, the classes of a
\* module contiguous (a module is one dictionary of classes)
Schemas ==
    { s \in UNION { [1..n -> ClassPool] : n \in 1..MaxClasses } :
        /\ \A i, j \in DOMAIN s : i # j => s[i].name # s[j].name
        /\ \A i, j \in DOMAIN s :
              i < j => ModuleRank(s[i].module) <= ModuleRank(s[j].module) }

\* ------------------------------------------------------------------------
\* Class lookup
\* ------------------------------------------------------------------------

NotFound == 0

\* index of the class, NotFound for None
search_for_class_by_class_name(api_data, searched_class_name) ==
    IF \E i \in DOMAIN api_data : api_data[i].name = searched_class_name
    THEN CHOOSE i \in DOMAIN api_data :
            /\ api_data[i].name = searched_class_name
            /\ \A j \in 1..(i - 1) : api_data[j].name # searched_class_name
    ELSE NotFound

get_class(api_data, found) == api_data[found]

class_is_small_enum(c) == c.kind = "enum"

class_is_small_struct(c) == c.kind = "struct"

class_is_typedef(c) == c.kind = "typedef"

class_is_stack_allocated(c) ==
    c.external /\ c.kind \in {"struct", "enum", "typedef", "const"}

\* ------------------------------------------------------------------------
\* Errors.  An uncaught exception ends the run; `names` is the type name
\* the exception message contains (NoStr when it contains none).  A line
\* written by print() before the exception is kept in `printed`.
\* ------------------------------------------------------------------------

NoError == [type |-> "none", site |-> "none", names |-> NoStr, unresolved |-> << >>]

Raise(t, s, n) == [type |-> t, site |-> s, names |-> n, unresolved |-> << >>]

NoOutput == [err |-> NoError, printed |-> << >>]

\* the first error of a sequence of step results (each with err, printed)
FirstFailure(rs) ==
    IF \A i \in 1..Len(rs) : rs[i].err = NoError THEN NoOutput
    ELSE LET Failure(r) == [err |-> r.err, printed |-> r.printed]
         IN  Failure(rs[CHOOSE i \in 1..Len(rs) :
                           /\ rs[i].err # NoError
                           /\ \A j \in 1..(i - 1) : rs[j].err = NoError])

\* number of steps that ran to completion before the first error
RECURSIVE CompletedSteps(_)
CompletedSteps(rs) ==
    IF rs = << >> \/ Head(rs).err # NoError THEN 0
    ELSE 1 + CompletedSteps(Tail(rs))

\* subscripting the None returned by a failed lookup
NoneSubscript(site, t) ==
    [err |-> Raise("TypeError", site, NoStr), printed |-> <<t>>]

RECURSIVE Flatten(_)
\* the lists of ss joined in order, the two halves of ss one after the other
Flatten(ss) ==
    IF ss = << >> THEN << >>
    ELSE IF Len(ss) = 1 THEN ss[1]
    ELSE Flatten(SubSeq(ss, 1, Len(ss) \div 2))
            \o Flatten(SubSeq(ss, Len(ss) \div 2 + 1, Len(ss)))

\* ------------------------------------------------------------------------
\* generate_rust_callback_fn_type
\* ------------------------------------------------------------------------

CallbackArgStep(api_data, a) ==
    IF ~is_primitive_arg(a.type)
       /\ search_for_class_by_class_name(api_data, a.type) = NotFound
    THEN NoneSubscript("generate_rust_callback_fn_type", a.type)
    ELSE IF a.ref \notin {"ref", "refmut", "value"}
    THEN [err |-> Raise("Exception", "generate_rust_callback_fn_type", a.type),
          printed |-> << >>]
    ELSE NoOutput

CallbackRetStep(api_data, t) ==
    IF t # NoStr /\ ~is_primitive_arg(t)
       /\ search_for_class_by_class_name(api_data, t) = NotFound
    THEN [err |-> Raise("Exception", "generate_rust_callback_fn_type", t),
          printed |-> <<t>>]
    ELSE NoOutput

generate_rust_callback_fn_type(api_data, c) ==
    FirstFailure([i \in 1..Len(c.cb_args) |-> CallbackArgStep(api_data, c.cb_args[i])]
                 \o <<CallbackRetStep(api_data, c.cb_ret)>>)

\* ------------------------------------------------------------------------
\* fn_args_c_api: the parameter list of an exported native function
\* ------------------------------------------------------------------------

SelfArgC(self_val, class_name, class_ptr_name) ==
    [ name |-> <<"lower">> \o class_name,
      ptr  |-> IF self_val = "refmut" THEN <<"&", "mut", " ">>
               ELSE IF self_val = "ref" THEN <<"&">> ELSE NoStr,
      type |-> class_ptr_name ]

ArgStepC(api_data, a) ==
    LET Step(analyzed, found) ==
            IF is_primitive_arg(analyzed[2])
            THEN [err |-> NoError, printed |-> << >>,
                  arg |-> [name |-> <<a.name>>, ptr |-> analyzed[1], type |-> analyzed[2]]]
            ELSE IF found = NotFound
            THEN [err |-> Raise("Exception", "fn_args_c_api", analyzed[2]),
                  printed |-> <<analyzed[2]>>, arg |-> << >>]
            ELSE [err |-> NoError, printed |-> << >>,
                  arg |-> [name |-> <<a.name>>, ptr |-> analyzed[1],
                           type |-> prefix \o api_data[found].name]]
        Lookup(analyzed) ==
            Step(analyzed, search_for_class_by_class_name(api_data, analyzed[2]))
    IN  Lookup(analyze_type(a.type))

fn_args_c_api(f, class_name, class_ptr_name, self_as_first_arg, api_data) ==
    LET self_ok == f.self \in {"value", "mut value", "refmut", "ref"}
        Result(steps, fail) ==
            IF self_as_first_arg /\ ~self_ok
            THEN [err |-> Raise("Exception", "fn_args_c_api", NoStr),
                  printed |-> << >>, fn_args |-> << >>]
            ELSE IF fail.err # NoError
            THEN [err |-> fail.err, printed |-> fail.printed, fn_args |-> << >>]
            ELSE [err |-> NoError, printed |-> << >>,
                  fn_args |->
                    (IF self_as_first_arg
                     THEN <<SelfArgC(f.self, class_name, class_ptr_name)>> ELSE << >>)
                    \o [i \in 1..Len(f.args) |-> steps[i].arg]]
        Steps(steps) == Result(steps, FirstFailure(steps))
    IN  Steps([i \in 1..Len(f.args) |-> ArgStepC(api_data, f.args[i])])

\* the return type of an exported native function (generate_rust_dll)
ReturnStepDll(api_data, t, default) ==
    LET Step(analyzed, found) ==
            IF t = NoStr
            THEN [err |-> NoError, printed |-> << >>, returns |-> default]
            ELSE IF is_primitive_arg(analyzed[2])
            THEN [err |-> NoError, printed |-> << >>, returns |-> t]
            ELSE IF found = NotFound
            THEN [err |-> Raise("TypeError", "generate_rust_dll", NoStr),
                  printed |-> <<t>>, returns |-> NoStr]
            ELSE [err |-> NoError, printed |-> << >>,
                  returns |-> analyzed[1] \o prefix \o api_data[found].name
                              \o analyzed[3]]
        Lookup(analyzed) ==
            Step(analyzed, search_for_class_by_class_name(api_data, analyzed[2]))
    IN  Lookup(analyze_type(t))

\* ------------------------------------------------------------------------
\* generate_rust_dll: the loop over the classes.  It fills structs_map (an
\* ordered dictionary: `keys` in insertion order, `entries` per key) and
\* rust_functions_map.  An entry does not copy the field list of its class:
\* entry.cls is the class whose struct_fields / enum_fields list the entry
\* refers to.
\* ------------------------------------------------------------------------

treat_external_as_ptr(c) == c.external /\ c.is_boxed_object

StructEntry(c, i) ==
    IF class_is_typedef(c)
    THEN [ kind |-> "callback_typedef", cls |-> i, own_fields |-> << >>,
           external |-> FALSE, clone |-> TRUE, is_boxed_object |-> FALSE,
           custom_destructor |-> FALSE, derive |-> {}, extra_derive |-> NoStr,
           repr |-> NoStr ]
    ELSE [ kind |-> c.kind, cls |-> i, own_fields |-> << >>,
           external |-> TRUE, clone |-> c.clone,
           is_boxed_object |-> c.is_boxed_object,
           custom_destructor |-> c.custom_destructor, derive |-> c.derive,
           extra_derive |-> NoStr, repr |-> NoStr ]

ConstructorStepDll(api_data, c, f) ==
    LET class_ptr_name == prefix \o c.name
        Step(ret, args) ==
            IF ret.err # NoError
            THEN [err |-> ret.err, printed |-> ret.printed, fn |-> << >>]
            ELSE IF args.err # NoError
            THEN [err |-> args.err, printed |-> args.printed, fn |-> << >>]
            ELSE [err |-> NoError, printed |-> << >>,
                  fn |-> [name |-> class_ptr_name \o <<"_", f.name>>,
                          fn_args |-> args.fn_args, returns |-> ret.returns]]
    IN  Step(ReturnStepDll(api_data, f.returns, class_ptr_name),
             fn_args_c_api(f, c.name, class_ptr_name, FALSE, api_data))

FunctionStepDll(api_data, c, f) ==
    LET class_ptr_name == prefix \o c.name
        Step(args, ret) ==
            IF args.err # NoError
            THEN [err |-> args.err, printed |-> args.printed, fn |-> << >>]
            ELSE IF ret.err # NoError
            THEN [err |-> ret.err, printed |-> ret.printed, fn |-> << >>]
            ELSE [err |-> NoError, printed |-> << >>,
                  fn |-> [name |-> class_ptr_name \o <<"_", f.name>>,
                          fn_args |-> args.fn_args, returns |-> ret.returns]]
    IN  Step(fn_args_c_api(f, c.name, class_ptr_name, TRUE, api_data),
             ReturnStepDll(api_data, f.returns, NoStr))

\* the destructor functions without the _deepCopy of a class that has a
\* custom destructor
DestructorFnsDll_NoDeepCopy(c) ==
    LET class_ptr_name == prefix \o c.name
        object(ptr) == [name |-> <<"object">>, ptr |-> ptr, type |-> class_ptr_name]
    IN  (IF "Copy" \notin c.derive
            /\ (c.custom_destructor \/ treat_external_as_ptr(c))
         THEN <<[name |-> class_ptr_name \o <<"_", "delete">>,
                 fn_args |-> <<object(<<"&", "mut", " ">>)>>, returns |-> NoStr]>>
         ELSE << >>)
        \o
        (IF treat_external_as_ptr(c) /\ c.clone /\ ~c.custom_destructor
         THEN <<[name |-> class_ptr_name \o <<"_", "deepCopy">>,
                 fn_args |-> <<object(<<"&">>)>>, returns |-> class_ptr_name]>>
         ELSE << >>)

\* the _delete and _deepCopy functions exported for a class
DestructorFnsDll(c) ==
    LET class_ptr_name == prefix \o c.name
        object(ptr) == [name |-> <<"object">>, ptr |-> ptr, type |-> class_ptr_name]
    IN  (IF "Copy" \notin c.derive
            /\ (c.custom_destructor \/ treat_external_as_ptr(c))
         THEN <<[name |-> class_ptr_name \o <<"_", "delete">>,
                 fn_args |-> <<object(<<"&", "mut", " ">>)>>, returns |-> NoStr]>>
         ELSE << >>)
        \o
        (IF treat_external_as_ptr(c) /\ c.clone
         THEN <<[name |-> class_ptr_name \o <<"_", "deepCopy">>,
                 fn_args |-> <<object(<<"&">>)>>, returns |-> class_ptr_name]>>
         ELSE << >>)

\* one iteration of the class loop
DllClassStep(api_data, i) ==
    LET c     == api_data[i]
        none  == [has_entry |-> FALSE, fns |-> << >>]
        Step(cb, ctors, fns, fail) ==
            IF class_is_typedef(c) /\ Len(c.cb_args) + Len(c.cb_ret) > 0
            THEN IF cb.err # NoError
                 THEN [err |-> cb.err, printed |-> cb.printed] @@ none
                 ELSE [err |-> NoError, printed |-> << >>,
                       has_entry |-> TRUE, fns |-> << >>]
            ELSE IF ~c.external
            THEN [err |-> Raise("Exception", "generate_rust_dll", NoStr),
                  printed |-> << >>] @@ none
            ELSE IF fail.err # NoError
            THEN [err |-> fail.err, printed |-> fail.printed] @@ none
            ELSE IF ~class_is_stack_allocated(c)
            THEN [err |-> Raise("Exception", "generate_rust_dll", NoStr),
                  printed |-> << >>] @@ none
            ELSE [err |-> NoError, printed |-> << >>,
                  has_entry |-> c.kind \in {"struct", "enum"},
                  fns |-> [k \in 1..Len(ctors) |-> ctors[k].fn]
                          \o [k \in 1..Len(fns) |-> fns[k].fn]
                          \o DestructorFnsDll(c)]
        Fns(ctors, fns) ==
            Step(generate_rust_callback_fn_type(api_data, c), ctors, fns,
                 FirstFailure(ctors \o fns))
    IN  Fns([k \in 1..Len(c.constructors) |->
                 ConstructorStepDll(api_data, c, c.constructors[k])],
            [k \in 1..Len(c.functions) |->
                 FunctionStepDll(api_data, c, c.functions[k])])

\* the whole loop: the error of the first failing class, or the two maps
DllClassLoop(api_data) ==
    LET Result(steps, fail, with) ==
            IF fail.err # NoError
            THEN [err |-> fail.err, printed |-> fail.printed,
                  keys |-> << >>, entries |-> << >>, functions_map |-> << >>]
            ELSE [err |-> NoError, printed |-> << >>,
                  keys |-> [k \in 1..Len(with) |-> prefix \o api_data[with[k]].name],
                  entries |->
                      [key \in {prefix \o api_data[with[k]].name : k \in 1..Len(with)} |->
                          LET i == CHOOSE k \in 1..Len(api_data) :
                                       prefix \o api_data[k].name = key
                          IN  StructEntry(api_data[i], i)],
                  functions_map |-> Flatten([i \in 1..Len(api_data) |-> steps[i].fns])]
        Steps(steps) ==
            Result(steps, FirstFailure(steps),
                   SelectSeq([i \in 1..Len(api_data) |-> i],
                             LAMBDA i : steps[i].has_entry))
    IN  Steps([i \in 1..Len(api_data) |-> DllClassStep(api_data, i)])

\* ------------------------------------------------------------------------
\* sort_structs_map
\* ------------------------------------------------------------------------

\* the allowlist: container key -> element type that is forward-declared
forward_delcarations ==
    [ k \in {<<"Az", "DomVec">>, <<"Az", "XmlNodeVec">>, <<"Az", "MenuItemVec">>} |->
        IF k = <<"Az", "DomVec">> THEN <<"Dom">>
        ELSE IF k = <<"Az", "XmlNodeVec">> THEN <<"XmlNode">>
        ELSE <<"MenuItem">> ]

\* no forward declaration for any container
extra_forward_delcarations_Empty == << >>

extra_forward_delcarations ==
    [ k \in {<<"Az", "DomVec">>, <<"Az", "MenuItemVec">>, <<"Az", "XmlNodeVec">>} |->
        IF k = <<"Az", "DomVec">> THEN [type |-> "struct", name |-> <<"Az", "Dom">>]
        ELSE IF k = <<"Az", "MenuItemVec">>
        THEN [type |-> "struct", name |-> <<"Az", "MenuItem">>]
        ELSE [type |-> "struct", name |-> <<"Az", "XmlNode">>] ]

\* faulty variant: the field list is walked from its end
EntryFields_Reversed(api_data, e) ==
    LET Reverse(fs) == [i \in 1..Len(fs) |-> fs[Len(fs) + 1 - i]]
    IN  Reverse(IF e.cls = 0 THEN e.own_fields ELSE api_data[e.cls].fields)

\* the field list an entry refers to
EntryFields(api_data, e) ==
    IF e.cls = 0 THEN e.own_fields ELSE api_data[e.cls].fields

\* the analysed types of the fields / variant payloads of an entry
EntryFieldTypes(api_data, e) ==
    LET Types(typed) == [i \in 1..Len(typed) |-> analyze_type(typed[i].type)[2]]
    IN  IF e.kind \in {"struct", "enum"}
        THEN Types(SelectSeq(EntryFields(api_data, e), LAMBDA f : f.type # NoStr))
        ELSE << >>

\* a field type the sorter does not wait for
SortExempt(api_data, class_name, field_type) ==
    LET class_in_forward_decl == class_name \in DOMAIN forward_delcarations
        field_is_fn_ptr(found) ==
            found # NotFound /\ class_is_typedef(get_class(api_data, found))
    IN  \/ class_in_forward_decl /\ field_type = forward_delcarations[class_name]
        \/ field_is_fn_ptr(search_for_class_by_class_name(api_data, field_type))

\* faulty variant: a type held behind a pointer is not waited for
SortDependencies_PointersExempt(api_data, entries, class_name) ==
    LET e  == entries[class_name]
        fs == SelectSeq(EntryFields(api_data, e),
                        LAMBDA f : f.type # NoStr /\ analyze_type(f.type)[1] = NoStr)
        ts == IF e.kind \in {"struct", "enum"}
              THEN [i \in 1..Len(fs) |-> analyze_type(fs[i].type)[2]]
              ELSE << >>
    IN  SelectSeq(ts, LAMBDA t : ~is_primitive_arg(t) /\ ~SortExempt(api_data, class_name, t))

\* the non-primitive field types the sorter waits for
SortDependencies(api_data, entries, class_name) ==
    SelectSeq(EntryFieldTypes(api_data, entries[class_name]),
              LAMBDA t : ~is_primitive_arg(t) /\ ~SortExempt(api_data, class_name, t))

\* first pass, one class: a failed lookup is printed and then subscripted
SortFirstPassStep(api_data, entries, class_name) ==
    LET Step(bad) ==
            IF bad # << >>
            THEN NoneSubscript("sort_structs_map", bad[1]) @@ [insert |-> FALSE]
            ELSE [err |-> NoError, printed |-> << >>,
                  insert |-> SortDependencies(api_data, entries, class_name) = << >>]
    IN  Step(SelectSeq(EntryFieldTypes(api_data, entries[class_name]), LAMBDA t :
                 /\ ~is_primitive_arg(t)
                 /\ search_for_class_by_class_name(api_data, t) = NotFound))

\* faulty variant of the first pass: every declaration it places is put in
\* front of the ones placed before
SortFirstPassResult_PlacesInFront(api_data, entries, keys) ==
    LET idx == [i \in 1..Len(keys) |-> i]
        Result(fail, ins, rest) ==
            [ err |-> fail.err, printed |-> fail.printed,
              sorted_class_map  |-> [k \in 1..Len(ins) |-> keys[ins[Len(ins) + 1 - k]]],
              classes_not_found |-> [k \in 1..Len(rest) |-> keys[rest[k]]] ]
        Steps(steps) ==
            Result(FirstFailure(steps),
                   SelectSeq(idx, LAMBDA i : steps[i].insert),
                   SelectSeq(idx, LAMBDA i : ~steps[i].insert))
    IN  Steps([i \in 1..Len(keys) |-> SortFirstPassStep(api_data, entries, keys[i])])

SortFirstPassResult(api_data, entries, keys) ==
    LET idx == [i \in 1..Len(keys) |-> i]
        Result(fail, ins, rest) ==
            [ err |-> fail.err, printed |-> fail.printed,
              sorted_class_map  |-> [k \in 1..Len(ins) |-> keys[ins[k]]],
              classes_not_found |-> [k \in 1..Len(rest) |-> keys[rest[k]]] ]
        Steps(steps) ==
            Result(FirstFailure(steps),
                   SelectSeq(idx, LAMBDA i : steps[i].insert),
                   SelectSeq(idx, LAMBDA i : ~steps[i].insert))
    IN  Steps([i \in 1..Len(keys) |-> SortFirstPassStep(api_data, entries, keys[i])])

SeqToSet(q) == {q[i] : i \in 1..Len(q)}

RECURSIVE SweepFrom(_, _, _, _, _)
\* one sweep over `todo`; a class placed during the sweep counts at once.
\* The loop over `todo` is run as the loop over its first half followed by
\* the loop over its second half.
SweepFrom(api_data, entries, todo, sorted, not_found) ==
    IF todo = << >>
    THEN [sorted_class_map |-> sorted, current_classes_not_found |-> not_found]
    ELSE IF Len(todo) = 1
    THEN LET class_name == todo[1]
             AllPlaced(deps) ==
                 \A i \in 1..Len(deps) : (prefix \o deps[i]) \in SeqToSet(sorted)
             should_insert_struct ==
                 AllPlaced(SortDependencies(api_data, entries, class_name))
         IN  IF should_insert_struct
             THEN [sorted_class_map |-> Append(sorted, class_name),
                   current_classes_not_found |-> not_found]
             ELSE [sorted_class_map |-> sorted,
                   current_classes_not_found |-> Append(not_found, class_name)]
    ELSE CHOOSE result \in
             { SweepFrom(api_data, entries,
                         SubSeq(todo, Len(todo) \div 2 + 1, Len(todo)),
                         r.sorted_class_map, r.current_classes_not_found) :
                 r \in { SweepFrom(api_data, entries,
                                   SubSeq(todo, 1, Len(todo) \div 2),
                                   sorted, not_found) } } : TRUE

\* a sweep that, when it can place nothing, places everything that is left
Sweep_PlacesTheRest(api_data, entries, sorted, not_found) ==
    LET Step(r) ==
            IF r.current_classes_not_found = not_found
            THEN [sorted_class_map |-> sorted \o not_found,
                  current_classes_not_found |-> << >>]
            ELSE r
    IN  Step(SweepFrom(api_data, entries, not_found, sorted, << >>))

Sweep(api_data, entries, sorted, not_found) ==
    SweepFrom(api_data, entries, not_found, sorted, << >>)

\* ------------------------------------------------------------------------
\* generate_structs: the mirror declarations.  Every call of it is made
\* after sort_structs_map has looked up every field type of the table.
\* ------------------------------------------------------------------------

\* the class is a callback typedef with a non-empty signature
IsCallbackTypedefClass(c) ==
    class_is_typedef(c) /\ Len(c.cb_args) + Len(c.cb_ret) > 0

\* some field / variant payload of the entry is a callback typedef
HasCallbackField(api_data, e) ==
    \E i \in 1..Len(EntryFieldTypes(api_data, e)) :
        LET t     == EntryFieldTypes(api_data, e)[i]
            found == search_for_class_by_class_name(api_data, t)
        IN  /\ ~is_primitive_arg(t)
            /\ found # NotFound
            /\ IsCallbackTypedefClass(get_class(api_data, found))

\* the derives with the callback fields looked for in structs only
EmittedDerives_EnumKeepsDebug(api_data, struct_name, e, autoderive, no_derive) ==
    LET all_off == \/ e.custom_destructor
                   \/ ~autoderive
                   \/ (e.kind = "struct" /\ struct_name = <<"Az", "U8VecRef">>)
        cb      == e.kind = "struct" /\ HasCallbackField(api_data, e)
        debug   == ~no_derive /\ ~all_off /\ ~cb
        clone   == /\ ~no_derive
                   /\ e.clone /\ ~(e.external /\ e.is_boxed_object)
                   /\ ~all_off
        copy    == ~no_derive /\ "Copy" \in e.derive /\ ~all_off
    IN  (IF debug THEN {"Debug", "PartialEq", "PartialOrd"} ELSE {})
        \cup (IF clone THEN {"Clone"} ELSE {})
        \cup (IF copy THEN {"Copy"} ELSE {})

\* the derives with Copy written by default, like the other capabilities
EmittedDerives_CopyByDefault(api_data, struct_name, e, autoderive, no_derive) ==
    LET all_off == \/ e.custom_destructor
                   \/ ~autoderive
                   \/ (e.kind = "struct" /\ struct_name = <<"Az", "U8VecRef">>)
        cb      == HasCallbackField(api_data, e)
        debug   == ~no_derive /\ ~all_off /\ ~cb
        clone   == /\ ~no_derive
                   /\ e.clone /\ ~(e.external /\ e.is_boxed_object)
                   /\ ~all_off
        copy    == ~no_derive /\ ~all_off
    IN  (IF debug THEN {"Debug", "PartialEq", "PartialOrd"} ELSE {})
        \cup (IF clone THEN {"Clone"} ELSE {})
        \cup (IF copy THEN {"Copy"} ELSE {})

\* the derives with Clone taken from the declared capabilities instead of
\* the clone flag
EmittedDerives_CloneDeclared(api_data, struct_name, e, autoderive, no_derive) ==
    LET all_off == \/ e.custom_destructor
                   \/ ~autoderive
                   \/ (e.kind = "struct" /\ struct_name = <<"Az", "U8VecRef">>)
        cb      == HasCallbackField(api_data, e)
        debug   == ~no_derive /\ ~all_off /\ ~cb
        clone   == ~no_derive /\ "Clone" \in e.derive /\ ~all_off
        copy    == ~no_derive /\ "Copy" \in e.derive /\ ~all_off
    IN  (IF debug THEN {"Debug", "PartialEq", "PartialOrd"} ELSE {})
        \cup (IF clone THEN {"Clone"} ELSE {})
        \cup (IF copy THEN {"Copy"} ELSE {})

\* the #[derive(...)] attributes written on a struct or enum mirror
EmittedDerives(api_data, struct_name, e, autoderive, no_derive) ==
    LET class_can_be_copied == "Copy" \in e.derive
        class_can_be_cloned == e.clone
        treat_as_ptr        == e.external /\ e.is_boxed_object
        all_off == \/ e.custom_destructor
                   \/ ~autoderive
                   \/ (e.kind = "struct" /\ struct_name = <<"Az", "U8VecRef">>)
        cb      == HasCallbackField(api_data, e)
        debug   == ~no_derive /\ ~all_off /\ ~cb
        clone   == /\ ~no_derive
                   /\ ~(~class_can_be_cloned \/ (treat_as_ptr /\ class_can_be_cloned))
                   /\ ~all_off
        copy    == ~no_derive /\ class_can_be_copied /\ ~all_off
        other   == ~no_derive /\ ~all_off /\ ~cb
    IN  (IF debug THEN {"Debug"} ELSE {})
        \cup (IF clone THEN {"Clone"} ELSE {})
        \cup (IF other THEN {"PartialEq", "PartialOrd"} ELSE {})
        \cup (IF copy THEN {"Copy"} ELSE {})

\* one emitted struct field
EmitStructField(api_data, struct_name, field, private_pointers, wrapper_postfix) ==
    LET analyzed == analyze_type(field.type)
        found    == search_for_class_by_class_name(api_data, analyzed[2])
        prevent_wrapper_recursion ==
            Len(wrapper_postfix) # 0 /\ endswith(struct_name, wrapper_postfix)
        found_c_is_enum == found # NotFound /\ class_is_small_enum(get_class(api_data, found))
        field_postfix ==
            IF ~found_c_is_enum \/ prevent_wrapper_recursion THEN NoStr
            ELSE wrapper_postfix
    IN  IF is_primitive_arg(analyzed[2])
        THEN [ name |-> field.name, type |-> field.type,
               vis  |-> IF field.name = "ptr" /\ private_pointers
                        THEN "pub(crate)" ELSE "pub",
               extra_derive |-> field.extra_derive ]
        ELSE [ name |-> field.name,
               type |-> analyzed[1] \o prefix \o analyzed[2] \o field_postfix \o analyzed[3],
               vis  |-> IF field.name = "ptr" THEN "pub(crate)" ELSE "pub",
               extra_derive |-> field.extra_derive ]

\* one emitted enum variant; the looked-up class never has an "enum" key,
\* so the wrapper postfix is never appended to a payload
EmitEnumVariant(api_data, variant) ==
    LET analyzed == analyze_type(variant.type)
    IN  IF variant.type = NoStr
        THEN [name |-> variant.name, type |-> NoStr, vis |-> "", extra_derive |-> NoStr]
        ELSE IF is_primitive_arg(variant.type)
        THEN [name |-> variant.name, type |-> variant.type, vis |-> "",
              extra_derive |-> NoStr]
        ELSE [name |-> variant.name,
              type |-> analyzed[1] \o prefix \o analyzed[2] \o analyzed[3],
              vis |-> "", extra_derive |-> NoStr]

EmitDecl(api_data, struct_name, e, autoderive, private_pointers, no_derive, wrapper_postfix) ==
    LET fs == EntryFields(api_data, e)
        enum_repr == IF \E i \in 1..Len(fs) : fs[i].type # NoStr
                     THEN <<"C", ", ", "u8">> ELSE <<"C">>
    IN  IF e.kind = "callback_typedef"
        THEN [ name |-> struct_name, kind |-> "type", repr |-> NoStr, derives |-> {},
               extra_derive |-> NoStr, fields |-> << >> ]
        ELSE IF e.kind = "struct"
        THEN [ name |-> struct_name, kind |-> "struct",
               repr |-> IF e.repr # NoStr THEN e.repr ELSE <<"C">>,
               derives |-> EmittedDerives(api_data, struct_name, e, autoderive, no_derive),
               extra_derive |-> e.extra_derive,
               fields |-> [i \in 1..Len(fs) |->
                             EmitStructField(api_data, struct_name, fs[i],
                                             private_pointers, wrapper_postfix)] ]
        ELSE [ name |-> struct_name, kind |-> "enum",
               repr |-> IF e.repr # NoStr THEN e.repr ELSE enum_repr,
               derives |-> EmittedDerives(api_data, struct_name, e, autoderive, no_derive),
               extra_derive |-> e.extra_derive,
               fields |-> [i \in 1..Len(fs) |-> EmitEnumVariant(api_data, fs[i])] ]

generate_structs(api_data, keys, entries, autoderive, private_pointers, no_derive, wrapper_postfix) ==
    [i \in 1..Len(keys) |->
        EmitDecl(api_data, keys[i], entries[keys[i]], autoderive,
                 private_pointers, no_derive, wrapper_postfix)]

\* ------------------------------------------------------------------------
\* generate_size_test
\* ------------------------------------------------------------------------

\* the path of the hand-written type behind a class
ExternalPath(api_data, e) == <<"external">> \o api_data[e.cls].name

\* faulty variant: the layout of enums is not asserted
generate_size_test_StructsOnly(api_data, keys, entries) ==
    LET Asserts(with) ==
            [i \in 1..Len(with) |->
                [ left  |-> ExternalPath(api_data, entries[with[i]]),
                  right |-> with[i] ]]
    IN  [ generated_structs |->
              generate_structs(api_data, keys, entries, FALSE, TRUE, FALSE, NoStr),
          asserts |-> Asserts(SelectSeq(keys, LAMBDA k :
                          entries[k].external /\ entries[k].kind = "struct")) ]

generate_size_test(api_data, keys, entries) ==
    LET Asserts(with) ==
            [i \in 1..Len(with) |->
                [ left  |-> ExternalPath(api_data, entries[with[i]]),
                  right |-> with[i] ]]
    IN  [ generated_structs |->
              generate_structs(api_data, keys, entries, FALSE, TRUE, FALSE, NoStr),
          asserts |-> Asserts(SelectSeq(keys, LAMBDA k : entries[k].external)) ]

\* ------------------------------------------------------------------------
\* get_all_imports.  The classes imported from one module are collected in
\* a Python set; list(set) enumerates it in an order the program does not
\* control, given here by `hash_order`, a list of all class names.
\* ------------------------------------------------------------------------

\* str comparison on the class names of the pool
NameOrder == <<"A", "B", "Cb", "Dom", "DomVec", "K", "W">>

StrRank(n) == CHOOSE i \in 1..Len(NameOrder) : NameOrder[i] = n[1]

StrLess(a, b) == StrRank(a) < StrRank(b)

RECURSIVE SortedInsert(_, _)
SortedInsert(sorted, x) ==
    IF sorted = << >> THEN <<x>>
    ELSE IF StrLess(x, Head(sorted)) THEN <<x>> \o sorted
    ELSE <<Head(sorted)>> \o SortedInsert(Tail(sorted), x)

\* a list that is left in the iteration order of the set
list_sort_Unsorted(l) == l

RECURSIVE list_sort(_)
\* list.sort()
list_sort(l) ==
    IF l = << >> THEN << >>
    ELSE SortedInsert(list_sort(Tail(l)), Head(l))

\* list(a_set): the members in iteration order
list_of_set(a_set, hash_order) ==
    SelectSeq(hash_order, LAMBDA n : n \in a_set)

\* the class names that function arguments of the pool name
ImportableNames == {<<"A">>, <<"B">>}

\* every iteration order of a set of those names
HashOrders ==
    LET n == Cardinality(ImportableNames)
    IN  { h \in [1..n -> ImportableNames] : \A i, j \in 1..n : i # j => h[i] # h[j] }

ModuleNames(api_data) ==
    LET Names(idx) == [k \in 1..Len(idx) |-> api_data[idx[k]].module]
    IN  Names(SelectSeq([i \in 1..Len(api_data) |-> i],
                        LAMBDA i : \A j \in 1..(i - 1) :
                                      api_data[j].module # api_data[i].module))

ModuleClasses(api_data, module_name) ==
    SelectSeq(api_data, LAMBDA c : c.module = module_name)

\* search_imports_arg_type over the constructors and functions of a module
ArgTypesToSearch(module) ==
    Flatten([i \in 1..Len(module) |->
        Flatten([k \in 1..Len(module[i].constructors) |->
                    [a \in 1..Len(module[i].constructors[k].args) |->
                        module[i].constructors[k].args[a].type]])
        \o
        Flatten([k \in 1..Len(module[i].functions) |->
                    [a \in 1..Len(module[i].functions[k].args) |->
                        module[i].functions[k].args[a].type]])])

ImportArg(arg) == strip(replace(replace(arg, <<"*const">>), <<"*mut">>))

ImportStep(api_data, arg) ==
    LET Step(a) ==
            IF Len(a) = 1 /\ a[1] \in basic_types THEN NoOutput
            ELSE IF search_for_class_by_class_name(api_data, a) = NotFound
            THEN [err |-> Raise("Exception", "get_all_imports", a), printed |-> << >>]
            ELSE NoOutput
    IN  Step(ImportArg(arg))

RECURSIVE CollectImports(_, _, _)
\* the dictionary module -> set of classes, in insertion order
CollectImports(api_data, args, imports) ==
    IF args = << >> THEN imports
    ELSE LET Add(m, n) ==
                 IF \E i \in 1..Len(imports) : imports[i].module = m
                 THEN [i \in 1..Len(imports) |->
                          IF imports[i].module = m
                          THEN [imports[i] EXCEPT !.classes = @ \cup {n}]
                          ELSE imports[i]]
                 ELSE Append(imports, [module |-> m, classes |-> {n}])
             Found(found) == Add(api_data[found].module, api_data[found].name)
             Step(a) ==
                 IF Len(a) = 1 /\ a[1] \in basic_types THEN imports
                 ELSE Found(search_for_class_by_class_name(api_data, a))
         IN  CollectImports(api_data, Tail(args), Step(ImportArg(Head(args))))

\* the text of one `use crate::module::...;` line
UseLine(import, hash_order) ==
    LET Line(classes) ==
            [ module |-> import.module,
              use    |-> IF Len(classes) = 1 THEN classes ELSE list_sort(classes) ]
    IN  Line(list_of_set(import.classes, hash_order))

get_all_imports(api_data, module_name, hash_order) ==
    LET Lines(imports) == [i \in 1..Len(imports) |-> UseLine(imports[i], hash_order)]
        Result(args, fail) ==
            IF fail.err # NoError
            THEN [err |-> fail.err, printed |-> fail.printed, imports_str |-> << >>]
            ELSE [err |-> NoError, printed |-> << >>,
                  imports_str |->
                      Lines(SelectSeq(CollectImports(api_data, args, << >>),
                                      LAMBDA i : i.module # module_name))]
        Search(args) ==
            Result(args,
                   FirstFailure([i \in 1..Len(args) |-> ImportStep(api_data, args[i])]))
    IN  Search(ArgTypesToSearch(ModuleClasses(api_data, module_name)))

\* ------------------------------------------------------------------------
\* generate_rust_api: the ergonomic wrapper
\* ------------------------------------------------------------------------

\* a table that also holds a text for the function s of class W
rust_api_patches_WithFunctionKey ==
    { <<"str">>, <<"vec">>, <<"option">>, <<"dom">>, <<"gl">>, <<"css">>,
      <<"window">>, <<"callbacks">>, <<"m2", "W", "s">> }

\* the table of hand-written wrapper code (its keys)
rust_api_patches ==
    { <<"str">>, <<"vec">>, <<"option">>, <<"dom">>, <<"gl">>, <<"css">>,
      <<"window">>, <<"callbacks">> }

\* rust_bindings_fn_args: the parameters the wrapper function takes
SelfArgRust(self_val) ==
    IF self_val = "refmut" THEN <<"&", "mut", " ", "self">>
    ELSE IF self_val = "ref" THEN <<"&", "self">>
    ELSE <<"self">>

ArgRust(api_data, a) ==
    LET Param(start, arg_type, found) ==
            IF is_primitive_arg(arg_type)
            THEN <<a.name, ": ">> \o start \o arg_type
            ELSE IF start = <<"*const", " ">> \/ start = <<"*mut", " ">>
            THEN <<a.name, ": ">> \o start \o prefix \o api_data[found].name
            ELSE <<a.name, ": ">> \o start \o api_data[found].name
        Lookup(analyzed) ==
            Param(analyzed[1], analyzed[2],
                  search_for_class_by_class_name(api_data, analyzed[2]))
    IN  Lookup(analyze_type(strip(a.type)))

rust_bindings_fn_args(f, self_as_first_arg, api_data) ==
    (IF self_as_first_arg THEN <<SelfArgRust(f.self)>> ELSE << >>)
    \o [i \in 1..Len(f.args) |-> ArgRust(api_data, f.args[i])]

\* a forwarding call that hands over a shallow copy of every argument and
\* forgets the original
CallArgRust_ShallowCopy(api_data, a) ==
    <<"{", "let", " ", "c", " = ", a.name, ".", "shallow_copy", "()", "; ",
      "forget", "(", a.name, ")", "; ", "c", "}">>

\* rust_bindings_call_fn_args: the arguments of the forwarding call
CallArgRust(api_data, a) ==
    LET CallArg(start, arg_type, found) ==
            IF is_primitive_arg(arg_type) THEN <<a.name>>
            ELSE IF start = <<"*const", " ">> \/ start = <<"*mut", " ">> THEN <<a.name>>
            ELSE IF class_is_typedef(get_class(api_data, found))
            THEN start \o <<a.name>>
            ELSE IF class_is_stack_allocated(get_class(api_data, found))
            THEN start \o <<a.name>>
            ELSE start \o <<a.name>>
        Lookup(analyzed) ==
            CallArg(analyzed[1], analyzed[2],
                    search_for_class_by_class_name(api_data, analyzed[2]))
    IN  Lookup(analyze_type(strip(a.type)))

rust_bindings_call_fn_args(f, self_as_first_arg, api_data) ==
    (IF self_as_first_arg THEN << <<"self">> >> ELSE << >>)
    \o [i \in 1..Len(f.args) |-> CallArgRust(api_data, f.args[i])]

\* the functions loop reads use_patches from the variable `const`, which
\* holds the constructor that the constructors loop bound last: the last
\* constructor of the nearest class, up to this one, that has constructors.
\* With no constructor bound the read raises; it is made only for a key of
\* the patch table
StaleConstMarked(api_data, c) ==
    \E j \in 1..search_for_class_by_class_name(api_data, c.name) :
        /\ api_data[j].constructors # << >>
        /\ \A k \in (j + 1)..search_for_class_by_class_name(api_data, c.name) :
              api_data[k].constructors = << >>
        /\ "rust" \in api_data[j].constructors[Len(api_data[j].constructors)].use_patches

\* one constructor or method of the wrapper: the text pieces written for it
\* (the patch text pasted as it is, the `pub fn` definition) and the body
\* of the definition
WrapperFn(api_data, c, f, self_as_first_arg) ==
    LET in_table == <<c.module, c.name[1], f.name>> \in rust_api_patches
        patched ==
            /\ in_table
            /\ IF self_as_first_arg THEN StaleConstMarked(api_data, c)
               ELSE "rust" \in f.use_patches
        pasted == self_as_first_arg /\ in_table
    IN  [ name      |-> f.name,
          fn_args   |-> rust_bindings_fn_args(f, self_as_first_arg, api_data),
          defs      |-> (IF pasted THEN <<"patch">> ELSE << >>)
                        \o (IF pasted /\ f.use_patches # {} THEN << >> ELSE <<"fn">>),
          body      |-> IF patched THEN "patch" ELSE "forward",
          calls     |-> prefix \o c.name \o <<"_", f.name>>,
          call_args |-> rust_bindings_call_fn_args(f, self_as_first_arg, api_data) ]

\* the class is "pure virtual" for a target: it consists of patches instead
\* of being defined in the API
class_is_virtual(api_data, className, target) ==
    \E i \in 1..Len(api_data) :
        api_data[i].name = className /\ target \in api_data[i].use_patches

WrapperClass(api_data, c) ==
    [ name  |-> c.name,
      fns   |-> [k \in 1..Len(c.constructors) |->
                    WrapperFn(api_data, c, c.constructors[k], FALSE)]
                \o [k \in 1..Len(c.functions) |->
                    WrapperFn(api_data, c, c.functions[k], TRUE)],
      impls |-> (IF treat_external_as_ptr(c) /\ c.clone THEN {"Clone"} ELSE {})
                \cup (IF treat_external_as_ptr(c) THEN {"Drop"} ELSE {}) ]

generate_rust_api(api_data, keys, entries, hash_order) ==
    LET Classes(cs) == [i \in 1..Len(cs) |-> WrapperClass(api_data, cs[i])]
        Result(modules, imps, fail) ==
            IF fail.err # NoError
            THEN [err |-> fail.err, printed |-> fail.printed, code |-> << >>]
            ELSE [err |-> NoError, printed |-> << >>,
                  code |-> [ dll |-> generate_structs(api_data, keys, entries,
                                                      TRUE, TRUE, FALSE, NoStr),
                             modules |-> [m \in 1..Len(modules) |->
                                [ name    |-> modules[m],
                                  imports |-> imps[m].imports_str,
                                  classes |->
                                     Classes(ModuleClasses(api_data, modules[m])) ]] ]]
        Imports(modules, imps) == Result(modules, imps, FirstFailure(imps))
        Modules(modules) ==
            Imports(modules, [m \in 1..Len(modules) |->
                                 get_all_imports(api_data, modules[m], hash_order)])
    IN  Modules(ModuleNames(api_data))

\* ------------------------------------------------------------------------
\* The headers: generate_c_structs (C and C++ style)
\* ------------------------------------------------------------------------

\* replace_primitive_ctype
replace_primitive_ctype(input) ==
    LET i == strip(input)
        switcher ==
          [ k \in {"*const", "*mut", "i8", "u8", "i16", "u16", "i32", "i64",
                   "isize", "u32", "u64", "f32", "f64", "usize", "c_void"} |->
              CASE k = "*const" -> <<"*", " ">>
                [] k = "*mut"   -> <<"*", " ", "restrict", " ">>
                [] k = "i8"     -> <<"int8_t">>
                [] k = "u8"     -> <<"uint8_t">>
                [] k = "i16"    -> <<"int16_t">>
                [] k = "u16"    -> <<"uint16_t">>
                [] k = "i32"    -> <<"int32_t">>
                [] k = "i64"    -> <<"int64_t">>
                [] k = "isize"  -> <<"ssize_t">>
                [] k = "u32"    -> <<"uint32_t">>
                [] k = "u64"    -> <<"uint64_t">>
                [] k = "f32"    -> <<"float">>
                [] k = "f64"    -> <<"double">>
                [] k = "usize"  -> <<"size_t">>
                [] k = "c_void" -> <<"void">> ]
    IN  IF Len(i) = 1 /\ i[1] \in DOMAIN switcher THEN switcher[i[1]]
        ELSE i \o <<" ">>

enum_is_union(enum) == \E i \in 1..Len(enum) : enum[i].type # NoStr

CItem(k, n, w, fs) == [kind |-> k, name |-> n, what |-> w, fields |-> fs]

CField(n, t, p, a) == [name |-> n, type |-> t, ptr |-> p, array |-> a]

\* struct / enum / union: how a class is forward-declared
ForwardKind(c) ==
    IF c.kind = "enum"
    THEN IF enum_is_union(c.fields) THEN "union" ELSE "enum"
    ELSE "struct"

\* the non-primitive types of a callback signature, arguments first
CallbackTypes(c) ==
    LET args == [i \in 1..Len(c.cb_args) |-> analyze_type(c.cb_args[i].type)[2]]
        ret  == IF c.cb_ret = NoStr THEN << >> ELSE <<analyze_type(c.cb_ret)[2]>>
    IN  SelectSeq(args \o ret, LAMBDA t : ~is_primitive_arg(analyze_type(t)[2]))

RECURSIVE HoistFunctionPointers(_, _, _, _, _)
\* the function-pointer typedefs at the top of the header, each preceded by
\* the forward declarations of the types of its signature
HoistFunctionPointers(api_data, pfx, fnptrs, pending, declared) ==
    IF fnptrs = << >> THEN << >>
    ELSE IF pending = << >>
    THEN LET c == api_data[Head(fnptrs).cls]
         IN  <<CItem("fnptr", Head(fnptrs).name, "typedef",
                     [i \in 1..Len(c.cb_args) |->
                        CField("", IF is_primitive_arg(c.cb_args[i].type)
                                   THEN replace_primitive_ctype(c.cb_args[i].type)
                                   ELSE pfx \o c.cb_args[i].type,
                               c.cb_args[i].ref, NoStr)])>>
             \o (IF Len(fnptrs) = 1 THEN << >>
                 ELSE HoistFunctionPointers(api_data, pfx, Tail(fnptrs),
                          CallbackTypes(api_data[fnptrs[2].cls]), declared))
    ELSE LET t == Head(pending)
             c == get_class(api_data, search_for_class_by_class_name(api_data, t))
         IN  IF t \in declared
             THEN HoistFunctionPointers(api_data, pfx, fnptrs, Tail(pending), declared)
             ELSE <<CItem("forward", pfx \o t, ForwardKind(c), << >>)>>
                  \o HoistFunctionPointers(api_data, pfx, fnptrs, Tail(pending),
                                           declared \cup {t})

\* one field of a struct of the header
CStructField(api_data, pfx, field) ==
    LET analyzed == analyze_type(field.type)
        is_array == Len(analyzed[3]) = 3 /\ startswith(analyzed[3], <<";">>)
        array    == IF is_array THEN Tail(analyzed[3]) ELSE analyzed[3]
    IN  IF is_primitive_arg(analyzed[2])
        THEN CField(field.name, replace_primitive_ctype(analyzed[2]),
                    strip(replace_primitive_ctype(analyzed[1])), array)
        ELSE CField(field.name, pfx \o analyzed[2],
                    strip(replace_primitive_ctype(analyzed[1])), array)

\* the payload struct of one variant of a tagged union
CVariantStruct(pfx, struct_name, variant) ==
    LET analyzed == analyze_type(variant.type)
        variant_prefix == IF is_primitive_arg(analyzed[2]) THEN NoStr ELSE pfx
        is_array == Len(analyzed[3]) = 3 /\ startswith(analyzed[3], <<";">>)
        array    == IF is_array THEN Tail(analyzed[3]) ELSE analyzed[3]
        tag      == CField("tag", struct_name \o <<"Tag">>, NoStr, NoStr)
    IN  CItem("struct", struct_name \o <<"Variant_", variant.name>>, "variant",
              IF variant.type = NoStr THEN <<tag>>
              ELSE <<tag, CField("payload",
                                 variant_prefix \o strip(replace_primitive_ctype(analyzed[2])),
                                 strip(replace_primitive_ctype(analyzed[1])), array)>>)

\* the declarations written for one entry of the table
CDeclItems(api_data, pfx, struct_name, e, extra_forward, typedef_style) ==
    LET fs == EntryFields(api_data, e)
        forward ==
            IF struct_name \in DOMAIN extra_forward
            THEN <<CItem("forward", extra_forward[struct_name].name,
                         extra_forward[struct_name].type, << >>)>>
            ELSE << >>
        variant_names ==
            [i \in 1..Len(fs) |-> CField(fs[i].name, NoStr, NoStr, NoStr)]
    IN  forward \o
        (IF e.kind = "callback_typedef" THEN << >>
         ELSE IF e.kind = "struct"
         THEN <<CItem("struct", struct_name, "struct",
                      [i \in 1..Len(fs) |-> CStructField(api_data, pfx, fs[i])])>>
         ELSE IF ~enum_is_union(fs)
         THEN <<CItem("enum", struct_name, "enum", variant_names)>>
         ELSE <<CItem("enum", struct_name \o <<"Tag">>, "tag", variant_names)>>
              \o [i \in 1..Len(fs) |-> CVariantStruct(pfx, struct_name, fs[i])]
              \o <<CItem("union", struct_name, "union",
                         [i \in 1..Len(fs) |->
                            CField(fs[i].name,
                                   struct_name \o <<"Variant_", fs[i].name>>,
                                   NoStr, NoStr)])>>)

generate_c_structs(api_data, keys, entries, extra_forward, use_prefix, typedef_style) ==
    LET pfx    == IF use_prefix THEN prefix ELSE NoStr
        fnkeys == SelectSeq(keys, LAMBDA k :
                      /\ entries[k].kind = "callback_typedef"
                      /\ IsCallbackTypedefClass(api_data[entries[k].cls]))
        fnptrs == [i \in 1..Len(fnkeys) |->
                      [name |-> fnkeys[i], cls |-> entries[fnkeys[i]].cls]]
    IN  (IF fnptrs = << >> THEN << >>
         ELSE HoistFunctionPointers(api_data, pfx, fnptrs,
                                    CallbackTypes(api_data[fnptrs[1].cls]), {}))
        \o Flatten([i \in 1..Len(keys) |->
                       CDeclItems(api_data, pfx, keys[i], entries[keys[i]],
                                  extra_forward, typedef_style)])

\* the accessors of one variant: _matchRef and _matchMut
MatchFns(c, variant) ==
    [k \in 1..2 |->
        CItem("fn",
              prefix \o c.name \o <<IF k = 1 THEN "_matchRef" ELSE "_matchMut",
                                     variant.name>>,
              IF k = 1 THEN "matchRef" ELSE "matchMut",
              <<CField("value", prefix \o c.name, <<"*">>, NoStr),
                CField("out", prefix \o variant.type, <<"*", "*">>, NoStr)>>)]

\* accessors for every variant, with or without a payload
generate_c_extra_functions_EveryVariant(api_data) ==
    Flatten([i \in 1..Len(api_data) |->
        IF api_data[i].kind = "enum" /\ enum_is_union(api_data[i].fields)
        THEN Flatten([j \in 1..Len(api_data[i].fields) |->
                         MatchFns(api_data[i], api_data[i].fields[j])])
        ELSE << >>])

\* generate_c_extra_functions: the accessors that destructure tagged unions
generate_c_extra_functions(api_data) ==
    Flatten([i \in 1..Len(api_data) |->
        IF api_data[i].kind = "enum" /\ enum_is_union(api_data[i].fields)
        THEN Flatten([j \in 1..Len(api_data[i].fields) |->
                         IF api_data[i].fields[j].type # NoStr
                         THEN MatchFns(api_data[i], api_data[i].fields[j])
                         ELSE << >>])
        ELSE << >>])

\* strip_all_prefixes: the keys lose the prefix, the values are kept
strip_all_prefixes_keys(keys) ==
    [i \in 1..Len(keys) |-> SubSeq(keys[i], Len(prefix) + 1, Len(keys[i]))]

strip_all_prefixes_map(m) ==
    [k \in {SubSeq(key, Len(prefix) + 1, Len(key)) : key \in DOMAIN m} |->
        m[CHOOSE key \in DOMAIN m : SubSeq(key, Len(prefix) + 1, Len(key)) = k]]

\* ------------------------------------------------------------------------
\* generate_python_api
\* ------------------------------------------------------------------------

PyClassAttr(struct_name) ==
    <<"#[pyclass(name = ">> \o SubSeq(struct_name, Len(prefix) + 1, Len(struct_name))
    \o <<")]">>

PyGetSetAttr == <<"#[pyo3(get, set)]">>

\* the entry of the wrapper struct made for an enum
EnumWrapperEntry(struct_name) ==
    [ kind |-> "struct", cls |-> 0,
      own_fields |-> <<Field("inner", SubSeq(struct_name, Len(prefix) + 1, Len(struct_name)))>>,
      external |-> FALSE, clone |-> TRUE, is_boxed_object |-> FALSE,
      custom_destructor |-> FALSE, derive |-> {}, extra_derive |-> PyClassAttr(struct_name),
      repr |-> <<"transparent">> ]

\* the assignment to field[field_name]["extra_derive"] for the fields of a struct
PyMarkFields(fields) ==
    [i \in 1..Len(fields) |->
        IF Len(analyze_type(fields[i].type)[1]) > 0 THEN fields[i]
        ELSE IF fields[i].name # "cb"
        THEN [fields[i] EXCEPT !.extra_derive = PyGetSetAttr]
        ELSE fields[i]]

RECURSIVE PyWrapStructs(_, _)
\* the first loop of generate_python_api over the struct table.  st holds
\* the schema, the shared entries, new_struct_map (new_keys, new_entries),
\* raw_pointer_structs and whether the local variable `field` is bound.
PyWrapStructs(todo, st) ==
    IF todo = << >> \/ st.err # NoError THEN st
    ELSE LET struct_name == Head(todo)
             e  == st.entries[struct_name]
             fs == EntryFields(st.api, st.entries[struct_name])
             has_pointer == \E i \in 1..Len(EntryFields(st.api, st.entries[struct_name])) :
                 LET f == EntryFields(st.api, st.entries[struct_name])[i]
                 IN  f.type # NoStr /\ Len(analyze_type(f.type)[1]) > 0
             wrapper == struct_name \o <<"EnumWrapper">>
         IN  IF e.kind = "struct"
             THEN PyWrapStructs(Tail(todo),
                    [st EXCEPT
                       !.entries = [@ EXCEPT ![struct_name].extra_derive =
                                                 PyClassAttr(struct_name)],
                       !.api = [@ EXCEPT ![e.cls].fields = PyMarkFields(@)],
                       !.raw_pointer_structs =
                           IF has_pointer THEN Append(@, struct_name) ELSE @,
                       !.field_bound = @ \/ Len(fs) > 0])
             ELSE IF e.kind = "enum"
             THEN IF Len(fs) > 0 /\ ~st.field_bound
                  THEN [st EXCEPT
                          !.err = Raise("UnboundLocalError", "generate_python_api", NoStr),
                          !.new_keys = Append(@, wrapper),
                          !.wrappers = @ \cup {struct_name}]
                  ELSE PyWrapStructs(Tail(todo),
                         [st EXCEPT
                            !.new_keys = Append(@, wrapper),
                            !.wrappers = @ \cup {struct_name},
                            !.raw_pointer_structs =
                                IF has_pointer /\ struct_name \notin SeqToSet(@)
                                THEN Append(@, struct_name) ELSE @])
             ELSE PyWrapStructs(Tail(todo), st)

\* new_struct_map after the loop: the shared entries plus the wrappers
PyNewEntries(st) ==
    [k \in DOMAIN st.entries \cup {w \o <<"EnumWrapper">> : w \in st.wrappers} |->
        IF k \in DOMAIN st.entries THEN st.entries[k]
        ELSE EnumWrapperEntry(SubSeq(k, 1, Len(k) - 1))]

\* the check of the arguments of a constructor or method
PyFnStep(api_data, f) ==
    LET Step(arg_type, analyzed, found) ==
            IF Len(analyzed[1]) # 0 \/ arg_type = <<"RefAny">>
            THEN [err |-> Raise("Exception", "generate_python_api", NoStr),
                  printed |-> << >>]
            ELSE IF ~is_primitive_arg(analyzed[2])
                    /\ get_class(api_data, found).kind \notin {"enum", "struct"}
            THEN [err |-> Raise("Exception", "format_py_args", analyzed[2]),
                  printed |-> << >>]
            ELSE NoOutput
        Lookup(arg_type, analyzed) ==
            Step(arg_type, analyzed,
                 search_for_class_by_class_name(api_data, analyzed[2]))
        First(steps, pointer) ==
            IF pointer # << >> THEN pointer[1] ELSE FirstFailure(steps)
        Steps(steps) ==
            First(steps, SelectSeq(steps, LAMBDA r : r.err.site = "generate_python_api"))
    IN  Steps([i \in 1..Len(f.args) |->
                  Lookup(f.args[i].type, analyze_type(f.args[i].type))])

\* the loop over the classes of the schema: constructors, then methods
PyClassLoop(api_data) ==
    FirstFailure(Flatten([i \in 1..Len(api_data) |->
        IF api_data[i].kind = "struct"
        THEN [k \in 1..Len(api_data[i].constructors) |->
                 PyFnStep(api_data, api_data[i].constructors[k])]
             \o [k \in 1..Len(api_data[i].functions) |->
                 PyFnStep(api_data, api_data[i].functions[k])]
        ELSE << >>]))

\* classes that get no __new__ (the entries of the table that name classes
\* of the pool, and three more)
not_default_constructable ==
    { <<"U8Vec">>, <<"U8VecRef">>, <<"RefAny">>, <<"Callback">> }

\* the __new__ constructor written for a struct class without constructors:
\* the loop over the fields stops at a field named ptr, at a pointer or
\* reference and at a field whose class is neither a struct nor an enum;
\* only a struct of two fields that stopped at ptr gets no constructor
PyDefaultConstructor(api_data, c) ==
    LET Breaks(f) ==
            \/ f.name = "ptr"
            \/ Len(analyze_type(f.type)[1]) # 0
            \/ /\ ~is_primitive_arg(analyze_type(f.type)[2])
               /\ get_class(api_data,
                       search_for_class_by_class_name(api_data,
                           analyze_type(f.type)[2])).kind \notin {"enum", "struct"}
        Stopped == { k \in 1..Len(c.fields) : Breaks(c.fields[k]) }
        stop == IF Stopped = {} THEN Len(c.fields) + 1
                ELSE CHOOSE k \in Stopped : \A j \in Stopped : k <= j
        is_ref_struct ==
            Len(c.fields) = 2 /\ stop <= Len(c.fields) /\ c.fields[stop].name = "ptr"
        class_is_vec == c.name \in {<<"DomVec">>, <<"XmlNodeVec">>, <<"MenuItemVec">>}
    IN  IF c.kind # "struct" \/ c.constructors # << >>
           \/ c.name \in not_default_constructable \/ is_ref_struct
        THEN [kind |-> "none", fields |-> << >>]
        ELSE IF class_is_vec
        THEN [kind |-> "from_vec", fields |-> << >>]
        ELSE [kind |-> "fields",
              fields |-> [k \in 1..(stop - 1) |-> c.fields[k].name]]

\* the self parameter of a method of the extension: "&self" unless the
\* receiver is "refmut" or "value"
PySelfArg(self_val) ==
    IF self_val = "refmut" THEN <<"&", "mut", " ", "self">>
    ELSE IF self_val = "value" THEN <<"self">>
    ELSE <<"&", "self">>

\* the methods written into the #[pymethods] block of each struct class
PyMethods(api_data) ==
    Flatten([i \in 1..Len(api_data) |->
        IF api_data[i].kind = "struct"
        THEN [k \in 1..Len(api_data[i].functions) |->
                 [ for      |-> api_data[i].name,
                   name     |-> api_data[i].functions[k].name,
                   self_arg |-> PySelfArg(api_data[i].functions[k].self) ]]
        ELSE << >>])

generate_python_api(api_data, keys, entries, functions_map) ==
    LET named(k) == IF entries[k].kind = "enum" THEN k \o <<"EnumWrapper">> ELSE k
        Clones(cloned) == [i \in 1..Len(cloned) |-> named(cloned[i])]
        Drops(dropped) == [i \in 1..Len(dropped) |->
                              [for |-> named(dropped[i]),
                               calls |-> dropped[i] \o <<"_", "delete">>]]
        Result(st, loop) ==
            IF st.err # NoError
            THEN [err |-> st.err, printed |-> << >>, api |-> st.api,
                  entries |-> st.entries, code |-> << >>]
            ELSE IF loop.err # NoError
            THEN [err |-> loop.err, printed |-> loop.printed, api |-> st.api,
                  entries |-> st.entries, code |-> << >>]
            ELSE [err |-> NoError, printed |-> << >>, api |-> st.api,
                  entries |-> st.entries,
                  code |-> [ structs |-> generate_structs(st.api, st.new_keys,
                                            PyNewEntries(st), functions_map # << >>,
                                            FALSE, TRUE, <<"EnumWrapper">>),
                             send  |-> st.raw_pointer_structs,
                             fns   |-> PyMethods(st.api),
                             new   |-> [i \in 1..Len(st.api) |->
                                          PyDefaultConstructor(st.api, st.api[i])],
                             clone |-> Clones(SelectSeq(keys, LAMBDA k :
                                          /\ entries[k].clone
                                          /\ entries[k].kind \in {"struct", "enum"})),
                             drop  |-> Drops(SelectSeq(keys, LAMBDA k :
                                          /\ \/ entries[k].custom_destructor
                                             \/ entries[k].is_boxed_object
                                          /\ entries[k].kind \in {"struct", "enum"})) ]]
        Wrapped(st) == Result(st, PyClassLoop(st.api))
    IN  Wrapped(PyWrapStructs(keys,
                [ api |-> api_data, entries |-> entries, new_keys |-> keys,
                  wrappers |-> {}, raw_pointer_structs |-> << >>,
                  field_bound |-> FALSE, err |-> NoError ]))

\* ------------------------------------------------------------------------
\* The run of generate_api as a state machine
\* ------------------------------------------------------------------------

VARIABLES
    api,                \* apiData: the schema in memory
    pc,                 \* position of the run
    caller,             \* who called sort_structs_map: "dll", "c" or "cpp"
    keys,               \* structs_map of generate_api: the keys in order
    entries,            \* the entry dictionaries, shared by every table
    functions_map,      \* rust_functions_map
    sort_in,            \* sort_structs_map: its structs_map argument
    sorted_class_map,   \* sort_structs_map: keys placed so far, in order
    classes_not_found,  \* sort_structs_map: keys not placed yet
    iteration_count,    \* sort_structs_map: sweeps done
    out,                \* the generated code per target
    written,            \* the files written so far, in order
    arg,                \* analyze_type: its argument
    analyzed,           \* analyze_type: the list it returned
    error,              \* the uncaught exception, NoError while running
    printed             \* lines written by print()

vars == << api, pc, caller, keys, entries, functions_map, sort_in,
           sorted_class_map, classes_not_found, iteration_count,
           out, written, error, printed , arg, analyzed >>

typeVars == << arg, analyzed >>

sortVars == << sort_in, sorted_class_map, classes_not_found, iteration_count >>

NoCode == << >>

Init ==
    /\ api \in Schemas
    /\ pc = "generate_rust_dll"
    /\ caller = "none"
    /\ keys = << >>
    /\ entries = << >>
    /\ functions_map = << >>
    /\ sort_in = << >>
    /\ sorted_class_map = << >>
    /\ classes_not_found = << >>
    /\ iteration_count = 0
    /\ out = [dll |-> NoCode, size_test |-> NoCode, rust |-> NoCode,
              c |-> NoCode, python |-> NoCode, cpp |-> NoCode]
    /\ written = << >>
    /\ error = NoError
    /\ printed = << >>
    /\ arg = NoStr
    /\ analyzed = << >>

\* an uncaught exception: the interpreter stops
Abort(r) ==
    /\ pc' = "failed"
    /\ error' = r.err
    /\ printed' = printed \o r.printed

\* generate_rust_dll up to its call of sort_structs_map
GenerateRustDllClasses ==
    /\ pc = "generate_rust_dll"
    /\ \E r \in {DllClassLoop(api)} :
           IF r.err # NoError
           THEN /\ Abort(r)
                /\ UNCHANGED << api, caller, keys, entries, functions_map,
                                sortVars, out, written >>
           ELSE /\ pc' = "sort_first_pass"
                /\ caller' = "dll"
                /\ entries' = r.entries
                /\ functions_map' = r.functions_map
                /\ sort_in' = r.keys
                /\ out' = [out EXCEPT !.dll = r.functions_map]
                /\ UNCHANGED << api, keys, sorted_class_map, classes_not_found,
                                iteration_count, written, error, printed >>
    /\ UNCHANGED typeVars

\* sort_structs_map: the first loop
SortFirstPass ==
    /\ pc = "sort_first_pass"
    /\ \E r \in {SortFirstPassResult(api, entries, sort_in)} :
           IF r.err # NoError
           THEN /\ Abort(r)
                /\ UNCHANGED << sorted_class_map, classes_not_found, iteration_count >>
           ELSE /\ pc' = "sort_loop"
                /\ sorted_class_map' = r.sorted_class_map
                /\ classes_not_found' = r.classes_not_found
                /\ iteration_count' = 0
                /\ UNCHANGED << error, printed >>
    /\ UNCHANGED << api, caller, keys, entries, functions_map, sort_in, out, written >>
    /\ UNCHANGED typeVars

\* faulty variant of the while loop: the first sweep that places nothing
\* raises the exception
SortSweep_StopsWhenStuck ==
    /\ pc = "sort_loop"
    /\ classes_not_found # << >>
    /\ \E r \in {Sweep(api, entries, sorted_class_map, classes_not_found)} :
           /\ sorted_class_map' = r.sorted_class_map
           /\ classes_not_found' = r.current_classes_not_found
           /\ iteration_count' = iteration_count + 1
           /\ IF \/ iteration_count + 1 > MaxIterations
                 \/ r.current_classes_not_found = classes_not_found
              THEN /\ pc' = "failed"
                   /\ error' = [Raise("Exception", "sort_structs_map", NoStr)
                                   EXCEPT !.unresolved = r.current_classes_not_found]
                   /\ UNCHANGED printed
              ELSE UNCHANGED << pc, error, printed >>
    /\ UNCHANGED << api, caller, keys, entries, functions_map, sort_in, out, written >>
    /\ UNCHANGED typeVars

\* sort_structs_map: one iteration of the while loop
SortSweep ==
    /\ pc = "sort_loop"
    /\ classes_not_found # << >>
    /\ \E r \in {Sweep(api, entries, sorted_class_map, classes_not_found)} :
           /\ sorted_class_map' = r.sorted_class_map
           /\ classes_not_found' = r.current_classes_not_found
           /\ iteration_count' = iteration_count + 1
           /\ IF iteration_count + 1 > MaxIterations
              THEN /\ pc' = "failed"
                   /\ error' = [Raise("Exception", "sort_structs_map", NoStr)
                                   EXCEPT !.unresolved = r.current_classes_not_found]
                   /\ UNCHANGED printed
              ELSE UNCHANGED << pc, error, printed >>
    /\ UNCHANGED << api, caller, keys, entries, functions_map, sort_in, out, written >>
    /\ UNCHANGED typeVars

\* sort_structs_map: the loop condition fails, the sorted table is returned
SortReturn ==
    /\ pc = "sort_loop"
    /\ classes_not_found = << >>
    /\ pc' = IF caller = "dll" THEN "generate_size_test"
             ELSE IF caller = "c" THEN "generate_c_structs"
             ELSE "generate_cpp_structs"
    /\ UNCHANGED << api, caller, keys, entries, functions_map, sortVars,
                    out, written, error, printed >>
    /\ UNCHANGED typeVars

\* generate_rust_dll after the sort; generate_api writes azul-dll/src/lib.rs
FinishRustDll ==
    /\ pc = "generate_size_test"
    /\ keys' = sorted_class_map
    /\ out' = [out EXCEPT !.size_test = generate_size_test(api, sorted_class_map, entries)]
    /\ written' = Append(written, "azul-dll/src/lib.rs")
    /\ pc' = "generate_rust_api"
    /\ UNCHANGED << api, caller, entries, functions_map, sortVars, error, printed >>
    /\ UNCHANGED typeVars

\* generate_rust_api; generate_api writes api/rust/lib.rs
GenerateRustApi ==
    /\ pc = "generate_rust_api"
    /\ \E hash_order \in HashOrders :
       \E r \in {generate_rust_api(api, keys, entries, hash_order)} :
             IF r.err # NoError
             THEN /\ Abort(r)
                  /\ UNCHANGED << out, written >>
             ELSE /\ out' = [out EXCEPT !.rust = r.code]
                  /\ written' = Append(written, "api/rust/lib.rs")
                  /\ pc' = "generate_c_api"
                  /\ UNCHANGED << error, printed >>
    /\ UNCHANGED << api, caller, keys, entries, functions_map, sortVars >>
    /\ UNCHANGED typeVars

\* generate_c_api / generate_cpp_api up to their call of sort_structs_map
CallSort(who) ==
    /\ pc = IF who = "c" THEN "generate_c_api" ELSE "generate_cpp_api"
    /\ pc' = "sort_first_pass"
    /\ caller' = who
    /\ sort_in' = keys
    /\ sorted_class_map' = << >>
    /\ classes_not_found' = << >>
    /\ iteration_count' = 0
    /\ UNCHANGED << api, keys, entries, functions_map, out, written, error, printed >>
    /\ UNCHANGED typeVars

GenerateCApi == CallSort("c")

\* generate_c_api after the sort; generate_api writes api/c/azul.h
FinishCApi ==
    /\ pc = "generate_c_structs"
    /\ out' = [out EXCEPT !.c =
                  generate_c_structs(api, sorted_class_map, entries,
                                     extra_forward_delcarations, TRUE, "c")
                  \o generate_c_extra_functions(api)]
    /\ written' = Append(written, "api/c/azul.h")
    /\ pc' = "generate_python_api"
    /\ UNCHANGED << api, caller, keys, entries, functions_map, sortVars, error, printed >>
    /\ UNCHANGED typeVars

\* generate_python_api; generate_api writes azul-dll/src/python.rs
GeneratePythonApi ==
    /\ pc = "generate_python_api"
    /\ \E r \in {generate_python_api(api, keys, entries, functions_map)} :
           /\ api' = r.api
           /\ entries' = r.entries
           /\ IF r.err # NoError
              THEN /\ Abort(r)
                   /\ UNCHANGED << out, written >>
              ELSE /\ out' = [out EXCEPT !.python = r.code]
                   /\ written' = Append(written, "azul-dll/src/python.rs")
                   /\ pc' = "generate_cpp_api"
                   /\ UNCHANGED << error, printed >>
    /\ UNCHANGED << caller, keys, functions_map, sortVars >>
    /\ UNCHANGED typeVars

GenerateCppApi == CallSort("cpp")

\* generate_cpp_api after the sort; generate_api writes api/cpp/azul.hpp
FinishCppApi ==
    /\ pc = "generate_cpp_structs"
    /\ out' = [out EXCEPT !.cpp =
                  generate_c_structs(api, strip_all_prefixes_keys(sorted_class_map),
                                     strip_all_prefixes_map(entries),
                                     strip_all_prefixes_map(extra_forward_delcarations),
                                     FALSE, "cpp")]
    /\ written' = Append(written, "api/cpp/azul.hpp")
    /\ pc' = "done"
    /\ UNCHANGED << api, caller, keys, entries, functions_map, sortVars, error, printed >>
    /\ UNCHANGED typeVars

Next ==
    \/ GenerateRustDllClasses
    \/ SortFirstPass
    \/ SortSweep
    \/ SortReturn
    \/ FinishRustDll
    \/ GenerateRustApi
    \/ GenerateCApi
    \/ FinishCApi
    \/ GeneratePythonApi
    \/ GenerateCppApi
    \/ FinishCppApi

Spec == Init /\ [][Next]_vars

\* ------------------------------------------------------------------------
\* Properties of sort_structs_map
\* ------------------------------------------------------------------------

\* sort_structs_map has returned its order to generate_rust_dll,
\* generate_c_api or generate_cpp_api
SortReturned ==
    pc \in {"generate_size_test", "generate_c_structs", "generate_cpp_structs"}

\* the order holds exactly the declarations of the table, each once
IsPermutationOf(q, table) ==
    /\ Len(q) = Len(table)
    /\ SeqToSet(q) = SeqToSet(table)
    /\ \A i, j \in 1..Len(q) : q[i] = q[j] => i = j

\* the non-primitive types named by the fields / variant payloads of a key
NamedTypes(class_name) ==
    { t \in SeqToSet(EntryFieldTypes(api, entries[class_name])) :
          ~is_primitive_arg(t) }

\* declaration `t` stands before position i of the order
PlacedBefore(q, t, i) == \E j \in 1..(i - 1) : q[j] = prefix \o t

\* t is the element type of the allowlisted container class_name
IsAllowlistedElement(class_name, t) ==
    /\ class_name \in DOMAIN forward_delcarations
    /\ t = forward_delcarations[class_name]

\* t names a callback typedef of the schema
IsCallbackTypedefName(t) ==
    LET found == search_for_class_by_class_name(api, t)
    IN  found # NotFound /\ class_is_typedef(get_class(api, found))

\* C1 as stated: when sort_structs_map returns, the order is a permutation
\* of the table and every declaration stands after every non-primitive type
\* its fields name, allowlisted element types being the only exception.
C1_OnlyAllowlistExempt ==
    SortReturned =>
        /\ IsPermutationOf(sorted_class_map, sort_in)
        /\ \A i \in 1..Len(sorted_class_map) :
             \A t \in NamedTypes(sorted_class_map[i]) :
                 \/ IsAllowlistedElement(sorted_class_map[i], t)
                 \/ PlacedBefore(sorted_class_map, t, i)

\* C1 amended: when sort_structs_map returns, the order is a permutation of
\* the table and every declaration stands after every non-primitive type its
\* fields name, except allowlisted element types and callback typedefs.
C1_SortedOrder ==
    SortReturned =>
        /\ IsPermutationOf(sorted_class_map, sort_in)
        /\ \A i \in 1..Len(sorted_class_map) :
             \A t \in NamedTypes(sorted_class_map[i]) :
                 \/ IsAllowlistedElement(sorted_class_map[i], t)
                 \/ IsCallbackTypedefName(t)
                 \/ PlacedBefore(sorted_class_map, t, i)

\* the sort has reordered a table in which one declaration waits for another
\* and a further one names a callback typedef that stands after it
C1_Witness ==
    /\ SortReturned
    /\ sorted_class_map # sort_in
    /\ \E i \in 1..Len(sorted_class_map) :
         \E t \in NamedTypes(sorted_class_map[i]) :
             /\ ~IsCallbackTypedefName(t)
             /\ PlacedBefore(sorted_class_map, t, i)
    /\ \E i \in 1..Len(sorted_class_map) :
         \E t \in NamedTypes(sorted_class_map[i]) :
             /\ IsCallbackTypedefName(t)
             /\ ~PlacedBefore(sorted_class_map, t, i)

\* ------------------------------------------------------------------------
\* Properties of generate_size_test
\* ------------------------------------------------------------------------

\* generate_rust_dll has returned: the size test is part of azul-dll/src/lib.rs
SizeTestEmitted == written # << >>

\* the test asserts the layout of the backing type of class c against the
\* mirror Az<c>, and the test module defines that mirror
LayoutAsserted(c) ==
    /\ \E i \in 1..Len(out.size_test.asserts) :
          /\ out.size_test.asserts[i].left = <<"external">> \o c.name
          /\ out.size_test.asserts[i].right = prefix \o c.name
    /\ \E i \in 1..Len(out.size_test.generated_structs) :
          /\ out.size_test.generated_structs[i].name = prefix \o c.name
          /\ out.size_test.generated_structs[i].kind \in {"struct", "enum"}

\* C2 as stated: the size test asserts the layout of every class of the
\* schema that has an external path, against a mirror defined in the test.
C2_EveryExternalClass ==
    SizeTestEmitted =>
        \A i \in 1..Len(api) : api[i].external => LayoutAsserted(api[i])

\* C2 amended: the size test asserts the layout of every struct and enum
\* class of the schema (the classes that get a struct-table entry with an
\* external path) against a mirror defined in the test; a constant has an
\* external path and no assertion.
C2_EveryStructAndEnum ==
    SizeTestEmitted =>
        /\ \A i \in 1..Len(api) :
              api[i].kind \in {"struct", "enum"} => LayoutAsserted(api[i])
        /\ \A i \in 1..Len(api) :
              api[i].kind \notin {"struct", "enum"} =>
                  \A k \in 1..Len(out.size_test.asserts) :
                      out.size_test.asserts[k].right # prefix \o api[i].name

\* a size test for a schema with a struct, an enum and a constant
C2_Witness ==
    /\ SizeTestEmitted
    /\ \E i, j, k \in 1..Len(api) :
          api[i].kind = "struct" /\ api[j].kind = "enum" /\ api[k].kind = "const"
    /\ Len(out.size_test.asserts) = 2

\* ------------------------------------------------------------------------
\* Properties of the emitted declarations
\* ------------------------------------------------------------------------

\* the n-th artifact of the run has been written
Written(n) == Len(written) >= n

FieldNames(fs) == [i \in 1..Len(fs) |-> fs[i].name]

\* the struct and enum classes of the schema
DeclaredClasses == { i \in 1..Len(api) : api[i].kind \in {"struct", "enum"} }

\* a list of Rust mirrors declares class c once, with the fields / variants
\* of the schema in the order of the schema
MirrorKeepsFields(decls, c) ==
    /\ \E k \in 1..Len(decls) : decls[k].name = prefix \o c.name
    /\ \A k \in 1..Len(decls) :
          decls[k].name = prefix \o c.name =>
              /\ decls[k].kind = c.kind
              /\ FieldNames(decls[k].fields) = FieldNames(c.fields)
              /\ \A j \in 1..Len(c.fields) :
                    c.fields[j].type # NoStr =>
                        analyze_type(decls[k].fields[j].type)[2]
                            \in { analyze_type(c.fields[j].type)[2],
                                  prefix \o analyze_type(c.fields[j].type)[2],
                                  prefix \o analyze_type(c.fields[j].type)[2]
                                      \o <<"EnumWrapper">> }

\* the items of a header (forward declarations aside) that list the fields /
\* variants of `name`
HeaderItems(items, name, what) ==
    SelectSeq(items, LAMBDA it :
        it.kind # "forward" /\ it.name = name /\ it.what = what)

\* the payload structs of a tagged union, in the order of the header
HeaderVariants(items, name) ==
    SelectSeq(items, LAMBDA it :
        it.what = "variant" /\ startswith(it.name, name \o <<"Variant_">>))

\* a header declares class c once, with the fields / variants of the schema
\* in the order of the schema
HeaderKeepsFields(items, pfx, c) ==
    IF c.kind = "struct"
    THEN /\ Len(HeaderItems(items, pfx \o c.name, "struct")) = 1
         /\ FieldNames(HeaderItems(items, pfx \o c.name, "struct")[1].fields)
                = FieldNames(c.fields)
    ELSE IF ~enum_is_union(c.fields)
    THEN /\ Len(HeaderItems(items, pfx \o c.name, "enum")) = 1
         /\ FieldNames(HeaderItems(items, pfx \o c.name, "enum")[1].fields)
                = FieldNames(c.fields)
    ELSE /\ Len(HeaderItems(items, pfx \o c.name \o <<"Tag">>, "tag")) = 1
         /\ FieldNames(HeaderItems(items, pfx \o c.name \o <<"Tag">>, "tag")[1].fields)
                = FieldNames(c.fields)
         /\ Len(HeaderItems(items, pfx \o c.name, "union")) = 1
         /\ FieldNames(HeaderItems(items, pfx \o c.name, "union")[1].fields)
                = FieldNames(c.fields)
         /\ [k \in 1..Len(HeaderVariants(items, pfx \o c.name)) |->
                HeaderVariants(items, pfx \o c.name)[k].name]
                = [k \in 1..Len(c.fields) |->
                      pfx \o c.name \o <<"Variant_", c.fields[k].name>>]

\* C3: every backend that has emitted its declarations lists, for every
\* struct and enum class, exactly the fields / variants of the schema, in
\* the order of the schema: the mirrors of the size test, the bindings of
\* the wrapper, the C header, the scripting extension and the C++ header.
C3_FieldsInSchemaOrder ==
    \A i \in DeclaredClasses :
        /\ Written(1) => MirrorKeepsFields(out.size_test.generated_structs, api[i])
        /\ Written(2) => MirrorKeepsFields(out.rust.dll, api[i])
        /\ Written(3) => HeaderKeepsFields(out.c, prefix, api[i])
        /\ Written(4) => MirrorKeepsFields(out.python.structs, api[i])
        /\ Written(5) => HeaderKeepsFields(out.cpp, NoStr, api[i])

\* all five artifacts are written for a schema with a struct of two fields
\* and a tagged union
C3_Witness ==
    /\ Written(5)
    /\ \E i \in DeclaredClasses : api[i].kind = "struct" /\ Len(api[i].fields) = 2
    /\ \E i \in DeclaredClasses : api[i].kind = "enum" /\ enum_is_union(api[i].fields)

\* ------------------------------------------------------------------------
\* Properties of a whole run of generate_api
\* ------------------------------------------------------------------------

\* the run has ended: generate_api returned or an exception escaped
RunEnded == pc \in {"done", "failed"}

\* C4 as stated: a run never leaves partial output; a failed run has written
\* no artifact, and a run that ended has written all five artifacts or none.
C4_NoPartialOutput ==
    /\ pc = "failed" => written = << >>
    /\ RunEnded => Len(written) \in {0, 5}

\* ------------------------------------------------------------------------
\* Properties of type resolution
\* ------------------------------------------------------------------------

\* the types a class names: in its fields or variant payloads, in the
\* arguments and return types of its constructors and functions, and in its
\* callback signature
TypesNamedBy(c) ==
    { analyze_type(c.fields[j].type)[2] :
          j \in { k \in 1..Len(c.fields) : c.fields[k].type # NoStr } }
    \cup UNION { { analyze_type(f.args[j].type)[2] : j \in 1..Len(f.args) }
                   \cup (IF f.returns = NoStr THEN {}
                         ELSE {analyze_type(f.returns)[2]}) :
                 f \in SeqToSet(c.constructors) \cup SeqToSet(c.functions) }
    \cup { c.cb_args[j].type : j \in 1..Len(c.cb_args) }
    \cup (IF c.cb_ret = NoStr THEN {} ELSE {c.cb_ret})

\* the non-primitive types the schema names and has no class for
UnresolvedTypes ==
    { t \in UNION { TypesNamedBy(api[i]) : i \in 1..Len(api) } :
        /\ ~is_primitive_arg(t)
        /\ search_for_class_by_class_name(api, t) = NotFound }

\* C5 as stated: when the schema names a non-primitive type that has no
\* class, no artifact is written and a run that ended was aborted by an
\* error that names such a type.
C5_UnresolvedTypeNamed ==
    UnresolvedTypes # {} =>
        /\ written = << >>
        /\ pc # "done"
        /\ pc = "failed" => error.names \in UnresolvedTypes

\* ------------------------------------------------------------------------
\* Properties of the sorter's while loop
\* ------------------------------------------------------------------------

\* the declarations a struct or enum declaration waits for: the types its
\* fields name, the allowlisted element and callback typedefs aside
WaitsFor(class_name) ==
    IF entries[class_name].kind \notin {"struct", "enum"} THEN {}
    ELSE { prefix \o t : t \in { u \in NamedTypes(class_name) :
                                      /\ ~IsAllowlistedElement(class_name, u)
                                      /\ ~IsCallbackTypedefName(u) } }

\* the table holds a dependency cycle: a non-empty set of declarations each
\* of which waits for a declaration of the set
HasCycle(table) ==
    \E S \in (SUBSET SeqToSet(table)) \ {{}} :
        \A k \in S : WaitsFor(k) \cap S # {}

\* sort_structs_map raised its "infinite recursion detected" exception
SortGaveUp ==
    /\ pc = "failed"
    /\ error.type = "Exception"
    /\ error.site = "sort_structs_map"

\* C6: a table with a dependency cycle that the allowlist does not break is
\* never returned in an order; the loop makes at most MaxIterations + 1
\* sweeps, and the exception it raises then lists exactly the declarations
\* that are not placed at that moment.
C6_CycleIsFatal ==
    /\ (sort_in # << >> /\ HasCycle(sort_in)) => ~SortReturned
    /\ iteration_count <= MaxIterations + 1
    /\ SortGaveUp =>
          /\ iteration_count = MaxIterations + 1
          /\ error.unresolved = classes_not_found
          /\ SeqToSet(error.unresolved)
                = SeqToSet(sort_in) \ SeqToSet(sorted_class_map)

\* the sorter gave up on a table with a cycle of two declarations, after
\* it had placed a third
C6_Witness ==
    /\ SortGaveUp
    /\ HasCycle(sort_in)
    /\ Len(error.unresolved) = 2
    /\ sorted_class_map # << >>

\* ------------------------------------------------------------------------
\* Properties of the derive attributes
\* ------------------------------------------------------------------------

\* mirror i of the list names mirror j in a field or variant payload
MirrorNames(decls, i, j) ==
    \E f \in 1..Len(decls[i].fields) :
        /\ decls[i].fields[f].type # NoStr
        /\ analyze_type(decls[i].fields[f].type)[2] = decls[j].name

\* no struct or enum mirror of the list derives a capability that a struct
\* or enum mirror named by its fields does not derive; as set inclusion is
\* transitive this is the same for the mirrors reachable in several steps
DerivesClosed(decls) ==
    \A i, j \in 1..Len(decls) :
        ( /\ decls[i].kind \in {"struct", "enum"}
          /\ decls[j].kind \in {"struct", "enum"}
          /\ MirrorNames(decls, i, j) )
        => decls[i].derives \subseteq decls[j].derives

\* C7 as stated: in the mirrors emitted by generate_structs (the size test,
\* the bindings of the wrapper, the scripting extension) no struct or enum
\* derives a capability that the mirror of a class reachable through its
\* fields or variant payloads lacks.
C7_DerivesPropagate ==
    /\ Written(1) => DerivesClosed(out.size_test.generated_structs)
    /\ Written(2) => DerivesClosed(out.rust.dll)
    /\ Written(4) => DerivesClosed(out.python.structs)

\* ------------------------------------------------------------------------
\* Determinism
\* ------------------------------------------------------------------------

\* what generate_rust_api returns or raises, for every iteration order the
\* sets of imported classes can have
RustApiRuns ==
    { generate_rust_api(api, keys, entries, h) : h \in HashOrders }

\* C8: generation is deterministic.  Every step of the pipeline other than
\* generate_rust_api has one outcome; generate_rust_api, which iterates over
\* sets of imported classes, returns the same text or raises the same error
\* for every iteration order of those sets, and the text that was written is
\* that text.
C8_Deterministic ==
    /\ pc \in {"generate_rust_api", "generate_c_api"} =>
            Cardinality(RustApiRuns) = 1
    /\ pc = "generate_c_api" => \A r \in RustApiRuns : r.code = out.rust

\* the wrapper has been generated for a module that imports two classes of
\* another module
C8_Witness ==
    /\ pc = "generate_c_api"
    /\ \E i \in 1..Len(out.rust.modules) :
          \E k \in 1..Len(out.rust.modules[i].imports) :
              Len(out.rust.modules[i].imports[k].use) = 2

\* ------------------------------------------------------------------------
\* Frame of the backends
\* ------------------------------------------------------------------------

\* a step of generate_rust_api, generate_c_api, generate_python_api or
\* generate_cpp_api (of sort_structs_map called by one of them) that does
\* not raise
BackendStep ==
    /\ pc # "generate_rust_dll"
    /\ caller # "dll" \/ pc \notin {"sort_first_pass", "sort_loop", "generate_size_test"}
    /\ pc' # "failed"

\* the schema and the entries of the shared struct table, the field
\* dictionaries inside them included, are left as they are
ModelUnchanged ==
    /\ api' = api
    /\ \A i \in 1..Len(keys) : entries'[keys[i]] = entries[keys[i]]

\* C9 as stated: no backend changes the schema or an entry of the shared
\* struct table.
C9_BackendsOnlyRead == [][BackendStep => ModelUnchanged]_vars

\* ------------------------------------------------------------------------
\* Properties of arguments passed by value
\* ------------------------------------------------------------------------

\* t names a class that is handled through an opaque pointer
IsOpaqueHandle(t) ==
    LET found == search_for_class_by_class_name(api, t)
    IN  found # NotFound /\ treat_external_as_ptr(get_class(api, found))

\* the argument is an opaque handle taken by value
IsMoveArg(a) ==
    /\ analyze_type(a.type)[1] = NoStr
    /\ analyze_type(a.type)[3] = NoStr
    /\ ~is_primitive_arg(analyze_type(a.type)[2])
    /\ IsOpaqueHandle(analyze_type(a.type)[2])

\* the constructors and functions of class i with the position of an
\* opaque-handle argument taken by value
MoveArgs ==
    { <<i, f, j>> \in UNION { {i} \X (SeqToSet(api[i].constructors)
                                       \cup SeqToSet(api[i].functions))
                                  \X (1..2) : i \in 1..Len(api) } :
        j <= Len(f.args) /\ IsMoveArg(f.args[j]) }

\* the native function of class i for f declares its parameter for
\* argument j as the full handle value
NativeTakesHandle(i, f, j) ==
    \A n \in 1..Len(out.dll) :
        out.dll[n].name = prefix \o api[i].name \o <<"_", f.name>> =>
            \E k \in 1..Len(out.dll[n].fn_args) :
                out.dll[n].fn_args[k] =
                    [ name |-> <<f.args[j].name>>, ptr |-> NoStr,
                      type |-> prefix \o analyze_type(f.args[j].type)[2] ]

\* the wrapper functions of class i for f
WrapperFns(i, f) ==
    { w \in UNION { SeqToSet(out.rust.modules[m].classes[c].fns) :
                       <<m, c>> \in { <<m, c>> \in (1..Len(out.rust.modules)) \X (1..Len(api)) :
                           /\ c <= Len(out.rust.modules[m].classes)
                           /\ out.rust.modules[m].classes[c].name = api[i].name } } :
        w.name = f.name }

\* the text the forwarding call of w passes for argument j of f
CallArgOf(w, f, j) == w.call_args[Len(w.call_args) - Len(f.args) + j]

\* the text passed for an argument does more than name the parameter
InvalidatesHandle(text, name) == Len(text) > 1 /\ name \in SeqToSet(text)

\* C10 as stated: for an opaque-handle argument taken by value the native
\* function declares the full handle value, and the forwarding call of the
\* wrapper invalidates the caller's handle (a shallow copy, then forgetting
\* the original).
C10_MoveInvalidatesHandle ==
    Written(2) =>
        \A x \in MoveArgs :
            /\ NativeTakesHandle(x[1], x[2], x[3])
            /\ \A w \in WrapperFns(x[1], x[2]) :
                  InvalidatesHandle(CallArgOf(w, x[2], x[3]), x[2].args[x[3]].name)

\* C10 amended: for an opaque-handle argument taken by value the native
\* function declares the full handle value, the wrapper function takes the
\* class by value, and the forwarding call passes the parameter itself (a
\* move); no text that copies or forgets the handle is emitted.
C10_MovePassesParameter ==
    Written(2) =>
        \A x \in MoveArgs :
            /\ NativeTakesHandle(x[1], x[2], x[3])
            /\ \A w \in WrapperFns(x[1], x[2]) :
                  /\ CallArgOf(w, x[2], x[3]) = <<x[2].args[x[3]].name>>
                  /\ w.fn_args[Len(w.fn_args) - Len(x[2].args) + x[3]]
                        = <<x[2].args[x[3]].name, ": ">>
                            \o analyze_type(x[2].args[x[3]].type)[2]

\* the wrapper has been written for a function (a method with a self
\* argument) that takes an opaque handle by value
C10_Witness ==
    /\ Written(2)
    /\ \E x \in MoveArgs :
          /\ WrapperFns(x[1], x[2]) # {}
          /\ x[2].self # ""
          /\ \E n \in 1..Len(out.dll) :
                out.dll[n].name = prefix \o api[x[1]].name \o <<"_", x[2].name>>

\* ------------------------------------------------------------------------
\* Properties of the wrapper functions
\* ------------------------------------------------------------------------

EnumShape(c) ==
    IF ~enum_is_union(c.fields)
    THEN /\ Len(HeaderItems(out.c, prefix \o c.name, "enum")) = 1
         /\ Len(HeaderItems(out.c, prefix \o c.name \o <<"Tag">>, "tag")) = 0
         /\ Len(HeaderItems(out.c, prefix \o c.name, "union")) = 0
         /\ Len(HeaderVariants(out.c, prefix \o c.name)) = 0
    ELSE /\ Len(HeaderItems(out.c, prefix \o c.name, "enum")) = 0
         /\ Len(HeaderItems(out.c, prefix \o c.name \o <<"Tag">>, "tag")) = 1
         /\ Len(HeaderItems(out.c, prefix \o c.name \o <<"Tag">>, "tag")[1].fields)
                = Len(c.fields)
         /\ Len(HeaderVariants(out.c, prefix \o c.name)) = Len(c.fields)
         /\ Len(HeaderItems(out.c, prefix \o c.name, "union")) = 1
         /\ Len(HeaderItems(out.c, prefix \o c.name, "union")[1].fields)
                = Len(c.fields)

\* the number of matchRef / matchMut accessor pairs the C header holds for
\* variant j of the enum class c, 2 standing for "not a pair"
AccessorPairs(c, j) ==
    LET Pairs(refs, muts) == IF refs = muts THEN refs ELSE 2
    IN  Pairs(Len(HeaderItems(out.c, prefix \o c.name
                                 \o <<"_matchRef", c.fields[j].name>>, "matchRef")),
              Len(HeaderItems(out.c, prefix \o c.name
                                 \o <<"_matchMut", c.fields[j].name>>, "matchMut")))

\* C12 as stated: a payload-free enum is a plain enumeration; an enum with a
\* payload variant is a tagged union with accessors, and every variant of it
\* (two for a two-variant enum) has a matchRef / matchMut accessor pair.
C12_AccessorsPerVariant ==
    Written(3) =>
        \A i \in DeclaredClasses :
            api[i].kind = "enum" =>
                /\ EnumShape(api[i])
                /\ \A j \in 1..Len(api[i].fields) :
                      AccessorPairs(api[i], j)
                          = IF enum_is_union(api[i].fields) THEN 1 ELSE 0

\* C12 amended: a payload-free enum is a plain enumeration; an enum with a
\* payload variant is a tagged union, and exactly its variants that carry a
\* payload have a matchRef / matchMut accessor pair (one pair for a
\* two-variant enum with one unit variant).
C12_AccessorsPerPayload ==
    Written(3) =>
        \A i \in DeclaredClasses :
            api[i].kind = "enum" =>
                /\ EnumShape(api[i])
                /\ \A j \in 1..Len(api[i].fields) :
                      AccessorPairs(api[i], j)
                          = IF api[i].fields[j].type # NoStr THEN 1 ELSE 0

\* the C header is written for a two-variant enum with a unit variant and a
\* primitive payload variant
C12_Witness ==
    /\ Written(3)
    /\ \E i \in DeclaredClasses :
          /\ api[i].kind = "enum"
          /\ Len(api[i].fields) = 2
          /\ api[i].fields[1].type = NoStr
          /\ api[i].fields[2].type = <<"u32">>
          /\ Len(HeaderVariants(out.c, prefix \o api[i].name)) = 2

\* ------------------------------------------------------------------------
\* Properties of the order of a header
\* ------------------------------------------------------------------------

\* reading the header from the top, every struct field, union payload and
\* callback signature that names a class of the schema names one that is
\* declared or forward-declared above it
DeclaredAbove(items, pfx) ==
    \A n \in 1..Len(items) :
        items[n].kind \in {"struct", "fnptr"} =>
            \A f \in 1..Len(items[n].fields) :
                (\E i \in 1..Len(api) : items[n].fields[f].type = pfx \o api[i].name)
                => \E m \in 1..(n - 1) :
                      /\ items[m].name = items[n].fields[f].type
                      /\ items[m].kind # "fn"

\* every forward declaration of the header is one of the allowlist or
\* stands for a type of a callback signature
ForwardsAllowed(items, pfx) ==
    \A n \in 1..Len(items) :
        items[n].kind = "forward" =>
            \/ \E k \in DOMAIN extra_forward_delcarations :
                  items[n].name = extra_forward_delcarations[k].name
            \/ \E i \in 1..Len(api) :
                  /\ IsCallbackTypedefClass(api[i])
                  /\ \E t \in SeqToSet(CallbackTypes(api[i])) : items[n].name = pfx \o t

\* C13 as stated: in the C header and in the C++ header every struct field,
\* union payload and callback signature names only types declared or
\* forward-declared above it, and no forward declaration is emitted for a
\* struct field outside the allowlist.
C13_DeclaredBeforeUse ==
    /\ Written(3) => DeclaredAbove(out.c, prefix) /\ ForwardsAllowed(out.c, prefix)
    /\ Written(5) => DeclaredAbove(out.cpp, NoStr) /\ ForwardsAllowed(out.cpp, NoStr)

\* ------------------------------------------------------------------------
\* Properties of the allowlisted containers
\* ------------------------------------------------------------------------

\* the position of the declaration of `name` of the given kind in a list of
\* declarations, 0 when there is none
PosOf(items, name, kind) ==
    IF \E n \in 1..Len(items) : items[n].name = name /\ items[n].kind = kind
    THEN CHOOSE n \in 1..Len(items) :
            /\ items[n].name = name /\ items[n].kind = kind
            /\ \A m \in 1..(n - 1) : ~(items[m].name = name /\ items[m].kind = kind)
    ELSE 0

\* the containers of the allowlist that the table holds together with their
\* element type, as names without the prefix: <<container, element>>
Containers ==
    { <<SubSeq(k, Len(prefix) + 1, Len(k)), forward_delcarations[k]>> :
        k \in { k \in DOMAIN forward_delcarations :
                  /\ k \in SeqToSet(keys)
                  /\ prefix \o forward_delcarations[k] \in SeqToSet(keys) } }

\* in a header the container stands directly after a forward declaration of
\* the name `fwd` and before the definition of its element
ContainerInHeader(items, pfx, ce, fwd) ==
    /\ PosOf(items, pfx \o ce[1], "struct") > 1
    /\ PosOf(items, fwd, "forward") = PosOf(items, pfx \o ce[1], "struct") - 1
    /\ PosOf(items, pfx \o ce[1], "struct") < PosOf(items, pfx \o ce[2], "struct")

C15_SameClassification ==
    Written(2) =>
        \A i \in 1..Len(api) :
            /\ \A m \in 1..Len(out.rust.modules) :
                  \A c \in 1..Len(out.rust.modules[m].classes) :
                      out.rust.modules[m].classes[c].name = api[i].name =>
                          (("Drop" \in out.rust.modules[m].classes[c].impls)
                              <=> treat_external_as_ptr(api[i]))
            /\ (\E n \in 1..Len(out.dll) :
                    out.dll[n].name = prefix \o api[i].name \o <<"_", "deepCopy">>)
                  <=> (treat_external_as_ptr(api[i]) /\ api[i].clone)
            /\ (prefix \o api[i].name) \in DOMAIN entries =>
                  ((/\ entries[prefix \o api[i].name].external
                    /\ entries[prefix \o api[i].name].is_boxed_object)
                      <=> treat_external_as_ptr(api[i]))

\* ------------------------------------------------------------------------
\* Properties of the functions emitted for an opaque handle with a custom
\* destructor
\* ------------------------------------------------------------------------

\* the struct and enum classes that are opaque handles with the
\* custom-destructor flag
HandlesWithDestructor ==
    { i \in DeclaredClasses :
        treat_external_as_ptr(api[i]) /\ api[i].custom_destructor }

\* the native layer exports the function prefix + class + "_" + fn_name
Exports(i, fn_name) ==
    \E n \in 1..Len(out.dll) :
        out.dll[n].name = prefix \o api[i].name \o <<"_", fn_name>>

\* the wrapper class of class i carries the hand-written impl of the trait
WrapperImpl(i, trait) ==
    \E m \in 1..Len(out.rust.modules) :
        \E c \in 1..Len(out.rust.modules[m].classes) :
            /\ out.rust.modules[m].classes[c].name = api[i].name
            /\ trait \in out.rust.modules[m].classes[c].impls

\* the mirror of class i in the list derives the trait
MirrorDerives(decls, i, trait) ==
    \E k \in 1..Len(decls) :
        /\ decls[k].name = prefix \o api[i].name
        /\ trait \in decls[k].derives

\* C16 as stated: for an opaque-handle class with the custom-destructor flag
\* the generator emits a delete function and a shallow-copy function, and
\* no automatically generated clone: no deep-copy function, no derived
\* Clone and no Clone impl that calls one.
C16_DropAndShallowCopy ==
    Written(2) =>
        \A i \in HandlesWithDestructor :
            /\ Exports(i, "delete")
            /\ Exports(i, "shallowCopy")
            /\ ~Exports(i, "deepCopy")
            /\ ~WrapperImpl(i, "Clone")
            /\ ~MirrorDerives(out.rust.dll, i, "Clone")

\* C16 as amended: for an opaque-handle struct or enum with the
\* custom-destructor flag the native layer exports a delete function unless
\* the class derives Copy and a deep-copy function unless cloning is turned
\* off, and never a shallow-copy function; the wrapper implements Drop, and
\* Clone exactly when the deep-copy function exists; no mirror derives
\* Clone.
C16_DropAndDeepCopy ==
    Written(2) =>
        \A i \in HandlesWithDestructor :
            /\ Exports(i, "delete") <=> ("Copy" \notin api[i].derive)
            /\ Exports(i, "deepCopy") <=> api[i].clone
            /\ ~Exports(i, "shallowCopy")
            /\ WrapperImpl(i, "Drop")
            /\ WrapperImpl(i, "Clone") <=> api[i].clone
            /\ ~MirrorDerives(out.rust.dll, i, "Clone")
            /\ ~MirrorDerives(out.size_test.generated_structs, i, "Clone")

\* the wrapper is written for a schema with a cloneable opaque handle that
\* has a custom destructor, and its delete and deep-copy functions exist
C16_Witness ==
    /\ Written(2)
    /\ \E i \in HandlesWithDestructor :
          /\ api[i].clone
          /\ Exports(i, "delete")
          /\ Exports(i, "deepCopy")

\* ------------------------------------------------------------------------
\* Properties of the functions emitted for a plain inline struct
\* ------------------------------------------------------------------------

\* the inline structs with two primitive fields, no declared capabilities
\* and no custom destructor
PlainStructs ==
    { i \in 1..Len(api) :
        /\ api[i].kind = "struct"
        /\ ~treat_external_as_ptr(api[i])
        /\ Len(api[i].fields) = 2
        /\ \A f \in 1..2 : is_primitive_arg(api[i].fields[f].type)
        /\ api[i].derive = {}
        /\ ~api[i].custom_destructor }

SweepStep ==
    pc = "sort_loop" /\ iteration_count' = iteration_count + 1

\* C18 as stated: the sweep loop stops as soon as one complete sweep places
\* no declaration; no further sweep follows a sweep without progress.
C18_StopsWithoutProgress ==
    [][(SweepStep /\ classes_not_found' = classes_not_found)
          => pc' # "sort_loop"]_vars

\* C18 as amended: the sweep loop stops only when no declaration is left
\* unplaced or when it has made more than MaxIterations sweeps, and then
\* with the exception; a sweep that places nothing leaves the table as it
\* was and is followed by a further sweep as long as the count of sweeps
\* is at most MaxIterations.
C18_SweepsUntilLimit ==
    [][SweepStep =>
          /\ IF iteration_count' > MaxIterations
             THEN SortGaveUp'
             ELSE pc' = "sort_loop" /\ error' = NoError
          /\ classes_not_found' = classes_not_found
                => sorted_class_map' = sorted_class_map]_vars

\* the loop has made MaxIterations sweeps, none of which placed the
\* declarations that are left, and is about to sweep again
C18_Witness ==
    /\ pc = "sort_loop"
    /\ iteration_count = MaxIterations
    /\ classes_not_found # << >>
    /\ HasCycle(sort_in)

\* ------------------------------------------------------------------------
\* sort_structs_map on long chains of declarations
\* ------------------------------------------------------------------------

\* struct number i of a chain of n structs: it holds the next struct of the
\* chain, the last one a number
ChainClass(i, n) ==
    [Cls("S" \o ToString(i), "m1", "struct") EXCEPT
        !.fields = IF i < n
                   THEN <<Field("next", <<"S" \o ToString(i + 1)>>)>>
                   ELSE <<Field("x", <<"u32">>)>>]

\* the chains of MaxIterations + 2 structs, inserted with every struct
\* before the struct it holds, or after it
ChainSchemas ==
    { [i \in 1..(MaxIterations + 2) |->
          ChainClass(IF dependents_first THEN i ELSE MaxIterations + 3 - i,
                     MaxIterations + 2)] : dependents_first \in BOOLEAN }

InitChain ==
    /\ api \in ChainSchemas
    /\ pc = "generate_rust_dll"
    /\ caller = "none"
    /\ keys = << >>
    /\ entries = << >>
    /\ functions_map = << >>
    /\ sort_in = << >>
    /\ sorted_class_map = << >>
    /\ classes_not_found = << >>
    /\ iteration_count = 0
    /\ out = [dll |-> NoCode, size_test |-> NoCode, rust |-> NoCode,
              c |-> NoCode, python |-> NoCode, cpp |-> NoCode]
    /\ written = << >>
    /\ error = NoError
    /\ printed = << >>
    /\ arg = NoStr
    /\ analyzed = << >>

\* generate_rust_dll up to the return of sort_structs_map
NextChain ==
    \/ GenerateRustDllClasses
    \/ SortFirstPass
    \/ SortSweep
    \/ SortReturn

SpecChain == InitChain /\ [][NextChain]_vars

\* C19: sort_structs_map terminates on every finite table (it makes at
\* most MaxIterations + 1 sweeps), and it raises its "infinite recursion"
\* exception only when a declaration is left unplaced that no further sweep
\* could place, never with an empty remainder.  A table whose dependencies
\* are acyclic and all present always has a declaration that the next sweep
\* places, so that such a table is never given up whatever its depth and
\* insertion order.
C19_RaisesOnlyWhenStuck ==
    /\ iteration_count <= MaxIterations + 1
    /\ SortGaveUp =>
          /\ error.unresolved # << >>
          /\ Sweep(api, entries, sorted_class_map, error.unresolved)
                .current_classes_not_found = error.unresolved

\* ------------------------------------------------------------------------
\* Properties of the repeated sorts of one run
\* ------------------------------------------------------------------------

\* the keys of the declarations of a list of Rust mirrors, in order
RustOrder(decls, kinds) ==
    LET ds == SelectSeq(decls, LAMBDA d : d.kind \in kinds)
    IN  [k \in 1..Len(ds) |-> ds[k].name]

\* the keys of the classes declared by a header, in the order of their
\* declarations (a tagged union counts where its union stands)
HeaderOrder(items, pfx, whats) ==
    LET ds == SelectSeq(items, LAMBDA it :
                  it.kind \notin {"forward", "fn"} /\ it.what \in whats)
    IN  [k \in 1..Len(ds) |->
            prefix \o SubSeq(ds[k].name, Len(pfx) + 1, Len(ds[k].name))]

\* the keys of the table that are structs or enums, in order
StructAndEnumKeys ==
    SelectSeq(keys, LAMBDA k : entries[k].kind \in {"struct", "enum"})

\* sort_structs_map, called on the order it returned before, returns that
\* order again
SortsAgree ==
    (SortReturned /\ caller \in {"c", "cpp"}) =>
        sort_in = keys /\ sorted_class_map = sort_in

\* C20 as stated: sorting is idempotent, so that the three sorts of one run
\* agree and the size test, the wrapper's bindings and both headers list
\* the declarations of the table in one and the same order.
C20_OneOrderEverywhere ==
    /\ SortsAgree
    /\ pc = "done" =>
          /\ RustOrder(out.size_test.generated_structs,
                       {"struct", "enum", "type"}) = keys
          /\ RustOrder(out.rust.dll, {"struct", "enum", "type"}) = keys
          /\ HeaderOrder(out.c, prefix,
                         {"struct", "enum", "union", "typedef"}) = keys
          /\ HeaderOrder(out.cpp, NoStr,
                         {"struct", "enum", "union", "typedef"}) = keys

\* C20 as amended: sorting is idempotent, so that the three sorts of one run
\* agree; the size test and the wrapper's bindings list every declaration
\* of the table in that order, and both headers list the structs and enums
\* in that order, with the callback typedefs hoisted above them.
C20_OneOrderOfStructsAndEnums ==
    /\ SortsAgree
    /\ pc = "done" =>
          /\ RustOrder(out.size_test.generated_structs,
                       {"struct", "enum", "type"}) = keys
          /\ RustOrder(out.rust.dll, {"struct", "enum", "type"}) = keys
          /\ HeaderOrder(out.c, prefix, {"struct", "enum", "union"})
                = StructAndEnumKeys
          /\ HeaderOrder(out.cpp, NoStr, {"struct", "enum", "union"})
                = StructAndEnumKeys
          /\ \A h \in {out.c, out.cpp} : \A m, n \in 1..Len(h) :
                (h[m].kind = "fnptr" /\ h[n].kind \in {"struct", "enum", "union"})
                    => m < n

\* the run is done for a table that the first sort reordered and in which
\* a callback typedef stands after a struct
C20_Witness ==
    /\ pc = "done"
    /\ \E i, j \in 1..Len(keys) :
          /\ i < j
          /\ entries[keys[i]].kind = "struct"
          /\ entries[keys[j]].kind = "callback_typedef"
    /\ keys # [i \in 1..Len(api) |-> prefix \o api[i].name]

\* ------------------------------------------------------------------------
\* Properties of the capabilities written on a mirror
\* ------------------------------------------------------------------------

\* C21 as stated: the capabilities written on the mirror of a class are a
\* subset of the capabilities the class declares in its derive list; a
\* class that declares none gets none.
C21_DerivesAreDeclared ==
    Written(2) =>
        \A i \in DeclaredClasses : \A t \in AllDerives :
            ( \/ MirrorDerives(out.size_test.generated_structs, i, t)
              \/ MirrorDerives(out.rust.dll, i, t) )
            => t \in api[i].derive

\* C21 as amended: of the capabilities written on a mirror only Copy is
\* taken from the derive list of the class; Debug, Clone, PartialEq and
\* PartialOrd are written whatever the class declares and taken away by
\* the flags of the class alone (Debug and the comparisons by a custom
\* destructor, a callback field or, for a struct, the name U8VecRef; Clone
\* by a custom destructor, clone: false, an opaque handle or, for a struct,
\* the name U8VecRef).  The
\* mirrors of the size test and of the scripting extension carry none.
C21_OnlyCopyIsDeclared ==
    /\ Written(2) =>
          \A i \in DeclaredClasses :
              /\ \A t \in AllDerives :
                    ~MirrorDerives(out.size_test.generated_structs, i, t)
              /\ MirrorDerives(out.rust.dll, i, "Copy")
                    => "Copy" \in api[i].derive
              /\ \A t \in {"Debug", "PartialEq", "PartialOrd"} :
                    MirrorDerives(out.rust.dll, i, t)
                        <=> /\ ~api[i].custom_destructor
                            /\ ~HasCallbackField(api, entries[prefix \o api[i].name])
                            /\ ~(api[i].kind = "struct" /\ api[i].name = <<"U8VecRef">>)
              /\ MirrorDerives(out.rust.dll, i, "Clone")
                    <=> /\ ~api[i].custom_destructor
                        /\ api[i].clone
                        /\ ~treat_external_as_ptr(api[i])
                        /\ ~(api[i].kind = "struct" /\ api[i].name = <<"U8VecRef">>)
    /\ Written(4) =>
          \A i \in DeclaredClasses : \A t \in AllDerives :
              ~MirrorDerives(out.python.structs, i, t)

\* the wrapper is written for a schema with a class that declares Copy and
\* not Debug, whose mirror derives Copy, and a class that declares nothing,
\* whose mirror derives Debug
C21_Witness ==
    /\ Written(2)
    /\ \E i, j \in DeclaredClasses :
          /\ "Debug" \notin api[i].derive
          /\ MirrorDerives(out.rust.dll, i, "Copy")
          /\ api[j].derive = {}
          /\ MirrorDerives(out.rust.dll, j, "Debug")

\* C22: no mirror written by generate_structs (size test, bindings of the
\* wrapper, scripting extension) derives Debug, PartialEq or PartialOrd for
\* a struct or enum that has a custom destructor or that has a field or
\* variant payload whose class is a callback typedef.
C22_NoDebugWithDestructorOrCallback ==
    \A i \in DeclaredClasses :
        ( \/ api[i].custom_destructor
          \/ \E f \in 1..Len(api[i].fields) : \E j \in 1..Len(api) :
                /\ api[i].fields[f].type # NoStr
                /\ api[j].name = analyze_type(api[i].fields[f].type)[2]
                /\ api[j].kind = "typedef" )
        => \A t \in {"Debug", "PartialEq", "PartialOrd"} :
              /\ Written(1) => ~MirrorDerives(out.size_test.generated_structs, i, t)
              /\ Written(2) => ~MirrorDerives(out.rust.dll, i, t)
              /\ Written(4) => ~MirrorDerives(out.python.structs, i, t)

\* the wrapper is written for a schema with an enum that has a callback
\* payload and a struct with a custom destructor; both have a mirror in the
\* bindings
C22_Witness ==
    /\ Written(2)
    /\ \E i, j \in DeclaredClasses :
          /\ api[i].kind = "enum"
          /\ \E f \in 1..Len(api[i].fields) : api[i].fields[f].type = <<"Cb">>
          /\ api[j].kind = "struct" /\ api[j].custom_destructor
          /\ \A c \in {i, j} : \E n \in 1..Len(out.rust.dll) :
                out.rust.dll[n].name = prefix \o api[c].name

\* C23: no mirror of an opaque-handle class derives Clone; exactly when
\* such a class is clonable the native layer exports its deep-copy function
\* and the wrapper implements Clone (by calling it), and when it is not
\* clonable neither is emitted.
C23_HandWrittenClone ==
    Written(2) =>
        \A i \in 1..Len(api) :
            treat_external_as_ptr(api[i]) =>
                /\ ~MirrorDerives(out.size_test.generated_structs, i, "Clone")
                /\ ~MirrorDerives(out.rust.dll, i, "Clone")
                /\ Exports(i, "deepCopy") <=> api[i].clone
                /\ WrapperImpl(i, "Clone") <=> api[i].clone

\* ---------------------------------------------------------------------
\* Properties of the receiver of a method
\* ---------------------------------------------------------------------

\* the self parameter of the ownership class of a receiver tag: by value for
\* "value" and "mut value", a mutable borrow for "refmut", an immutable
\* borrow for "ref"
OwnershipClass(tag) ==
    IF tag \in {"value", "mut value"} THEN <<"self">>
    ELSE IF tag = "refmut" THEN <<"&", "mut", " ", "self">>
    ELSE <<"&", "self">>

\* the methods (functions with a receiver) of the schema
Methods ==
    UNION { {i} \X SeqToSet(api[i].functions) : i \in 1..Len(api) }

\* C24 as stated: in the native export layer, in the wrapper and in the
\* scripting extension the self parameter of a method is of the ownership
\* class of its receiver tag ("value" and "mut value" by value, "refmut" a
\* mutable borrow, "ref" an immutable borrow), and a schema with any other
\* receiver tag gets no file written.
C24_SameOwnershipEverywhere ==
    \A x \in Methods :
        IF x[2].self \in {"value", "mut value", "refmut", "ref"}
        THEN /\ Written(1) =>
                   \A n \in 1..Len(out.dll) :
                       out.dll[n].name = prefix \o api[x[1]].name \o <<"_", x[2].name>> =>
                           out.dll[n].fn_args[1].ptr \o <<"self">>
                               = OwnershipClass(x[2].self)
             /\ Written(2) =>
                   \A w \in WrapperFns(x[1], x[2]) :
                       w.fn_args[1] = OwnershipClass(x[2].self)
             /\ Written(4) =>
                   \A n \in 1..Len(out.python.fns) :
                       /\ out.python.fns[n].for = api[x[1]].name
                       /\ out.python.fns[n].name = x[2].name
                       => out.python.fns[n].self_arg = OwnershipClass(x[2].self)
        ELSE written = << >>

\* ---------------------------------------------------------------------
\* Properties of the references to the destructor and the deep copy
\* ---------------------------------------------------------------------

\* C25 as stated: every "_delete" or "_deepCopy" function that the wrapper
\* (in its impl Drop and impl Clone) or the scripting extension (in its impl
\* Drop) refers to is a function the native export layer defines for that
\* class, classes that declare Copy included.
C25_ReferencesAreDefined ==
    /\ Written(2) =>
          \A i \in 1..Len(api) :
              /\ WrapperImpl(i, "Drop") => Exports(i, "delete")
              /\ WrapperImpl(i, "Clone") => Exports(i, "deepCopy")
    /\ Written(4) =>
          \A n \in 1..Len(out.python.drop) :
              \E k \in 1..Len(out.dll) :
                  out.dll[k].name = out.python.drop[n].calls

\* ---------------------------------------------------------------------
\* Properties of the order of the backends
\* ---------------------------------------------------------------------

\* C26 as stated: the text of a target does not depend on which other
\* backends have run before on the same schema and struct table.  The
\* scripting-extension backend is the only step that changes either, so the
\* wrapper, the C header and the C++ header generated from the schema and
\* table it leaves behind are the ones generated from the schema and table
\* it was given.
C26_TextIndependentOfOrder ==
    [][ (pc = "generate_python_api" /\ pc' = "generate_cpp_api") =>
            /\ \A h \in HashOrders :
                  generate_rust_api(api', keys, entries', h).code
                      = generate_rust_api(api, keys, entries, h).code
            /\ generate_c_structs(api', sorted_class_map, entries',
                                  extra_forward_delcarations, TRUE, "c")
                  = generate_c_structs(api, sorted_class_map, entries,
                                       extra_forward_delcarations, TRUE, "c")
            /\ generate_c_structs(api', strip_all_prefixes_keys(sorted_class_map),
                                  strip_all_prefixes_map(entries'),
                                  strip_all_prefixes_map(extra_forward_delcarations),
                                  FALSE, "cpp")
                  = generate_c_structs(api, strip_all_prefixes_keys(sorted_class_map),
                                       strip_all_prefixes_map(entries),
                                       strip_all_prefixes_map(extra_forward_delcarations),
                                       FALSE, "cpp") ]_vars

\* ---------------------------------------------------------------------
\* Properties of a class defined by a patch
\* ---------------------------------------------------------------------

\* C27 as stated: for a class whose use_patches names the wrapper's target
\* the wrapper backend emits none of the normally generated text: no class
\* block in the class's module and no mirror in the dll module.
C27_VirtualClassIsSkipped ==
    Written(2) =>
        \A i \in 1..Len(api) :
            class_is_virtual(api, api[i].name, "rust") =>
                /\ \A m \in 1..Len(out.rust.modules) :
                       \A c \in 1..Len(out.rust.modules[m].classes) :
                           out.rust.modules[m].classes[c].name # api[i].name
                /\ \A n \in 1..Len(out.rust.dll) :
                       out.rust.dll[n].name # prefix \o api[i].name

\* ---------------------------------------------------------------------
\* analyze_type on its own
\* ---------------------------------------------------------------------

\* the prefix layers a type string of the model has at most
MaxLayers == 2

RECURSIVE Layered(_)
\* the type strings with at most n prefix layers: a name, a primitive, an
\* array (with and without blanks, without a length, with two lengths),
\* behind the prefixes analyze_type looks for
Layered(n) ==
    IF n = 0
    THEN { <<"A">>, <<"u8">>,
           <<"[", "A", ";", "2", "]">>, <<"[", "u8", ";", " ", "4", "]">>,
           <<"[", "A", "]">>, <<"[", "A", ";", "2", ";", "3", "]">> }
    ELSE Layered(n - 1)
         \cup { p \o t : p \in { <<"&">>, <<"&", "mut", " ">>,
                                 <<"*const", " ">>, <<"*mut", " ">> },
                         t \in Layered(n - 1) }

InitAnalyze ==
    /\ api = << >>
    /\ pc = "analyze_type"
    /\ caller = "none"
    /\ keys = << >>
    /\ entries = << >>
    /\ functions_map = << >>
    /\ sort_in = << >>
    /\ sorted_class_map = << >>
    /\ classes_not_found = << >>
    /\ iteration_count = 0
    /\ out = [dll |-> NoCode, size_test |-> NoCode, rust |-> NoCode,
              c |-> NoCode, python |-> NoCode, cpp |-> NoCode]
    /\ written = << >>
    /\ error = NoError
    /\ printed = << >>
    /\ arg \in Layered(MaxLayers)
    /\ analyzed = << >>

\* one call of analyze_type; arg_type_array[1] raises an IndexError for a
\* bracketed type without ";"
AnalyzeType ==
    /\ pc = "analyze_type"
    /\ IF /\ startswith(arg_type_stripped(arg), <<"[">>)
          /\ endswith(arg_type_stripped(arg), <<"]">>)
          /\ Len(split(Tail(arg_type_stripped(arg)), ";")) < 2
       THEN /\ pc' = "failed"
            /\ error' = Raise("IndexError", "analyze_type", arg)
            /\ UNCHANGED analyzed
       ELSE /\ pc' = "done"
            /\ analyzed' = analyze_type(arg)
            /\ UNCHANGED error
    /\ UNCHANGED << api, caller, keys, entries, functions_map, sortVars,
                    out, written, printed, arg >>

SpecAnalyze == InitAnalyze /\ [][AnalyzeType]_vars

\* C28 as stated: when analyze_type returns, the prefix is the recognized
\* prefix the string starts with ("&mut" before "&", none otherwise; an
\* array adds its bracket), the base name is the string without that one
\* leading occurrence (for an array: the element type, the length going to
\* the suffix), and prefix, base name and suffix together are the input up
\* to blanks.
C28_LosslessDecomposition ==
    (pc = "done" /\ analyzed # << >>) =>
        LET Blankless(t) == SelectSeq(t, LAMBDA x : x # " ")
            leading ==
                IF startswith(arg, <<"&", "mut">>) THEN <<"&", "mut">>
                ELSE IF startswith(arg, <<"&">>) THEN <<"&">>
                ELSE IF startswith(arg, <<"*const">>) THEN <<"*const">>
                ELSE IF startswith(arg, <<"*mut">>) THEN <<"*mut">>
                ELSE << >>
            rest == Blankless(SubSeq(arg, Len(leading) + 1, Len(arg)))
        IN  /\ Blankless(analyzed[1])
                  = leading \o (IF analyzed[3] # << >> THEN <<"[">> ELSE << >>)
            /\ Blankless(analyzed[2] \o analyzed[3])
                  = (IF analyzed[3] # << >> THEN Tail(rest) ELSE rest)
            /\ Blankless(analyzed[1] \o analyzed[2] \o analyzed[3]) = Blankless(arg)

\* ---------------------------------------------------------------------
\* Properties of the default constructor of the scripting extension
\* ---------------------------------------------------------------------

\* C29 as stated: for a struct without schema constructors the extension
\* gets a field-wise __new__ only when every field is a primitive or an
\* inline struct or enum (no field named ptr, no pointer, no callback-typed
\* field), and that constructor takes every field of the struct; any other
\* struct gets no field-wise constructor.
C29_DefaultConstructorTakesEveryField ==
    Written(4) =>
        \A i \in 1..Len(api) :
            (api[i].kind = "struct" /\ api[i].constructors = << >>) =>
                LET Inline(f) ==
                        /\ f.name # "ptr"
                        /\ analyze_type(f.type)[1] = NoStr
                        /\ \/ is_primitive_arg(analyze_type(f.type)[2])
                           \/ \E j \in 1..Len(api) :
                                 /\ api[j].name = analyze_type(f.type)[2]
                                 /\ api[j].kind \in {"struct", "enum"}
                IN  out.python.new[i].kind = "fields" =>
                        /\ \A k \in 1..Len(api[i].fields) : Inline(api[i].fields[k])
                        /\ out.python.new[i].fields
                              = [k \in 1..Len(api[i].fields) |-> api[i].fields[k].name]

\* ---------------------------------------------------------------------
\* Properties of the forward declaration of a container's element
\* ---------------------------------------------------------------------

\* C30 as stated: in both headers the item directly before an allowlisted
\* container is a forward declaration of the type name that a pointer field
\* of the container refers to and that is defined further down: the
\* prefixed name in the C header, the unprefixed name in the C++ header.
C30_ForwardDeclaresTheElement ==
    LET Agrees(items, pfx, ce) ==
            LET p == PosOf(items, pfx \o ce[1], "struct")
            IN  /\ p > 1
                /\ items[p - 1].kind = "forward"
                /\ items[p - 1].name = pfx \o ce[2]
                /\ \E k \in 1..Len(items[p].fields) :
                       /\ items[p].fields[k].ptr # NoStr
                       /\ items[p].fields[k].type = items[p - 1].name
                /\ PosOf(items, items[p - 1].name, "struct") > p
    IN  /\ Written(3) => \A ce \in Containers : Agrees(out.c, prefix, ce)
        /\ Written(5) => \A ce \in Containers : Agrees(out.cpp, NoStr, ce)

====
